---- MODULE Spec2Model ----
(***************************************************************************)
(* Verification model of the in-memory transactional file store:          *)
(*   src/diff_operations.py              diff codec                       *)
(*   src/datastore/file_lock_manager.py  per-file shared/exclusive locks  *)
(*   src/datastore/file_object.py        snapshot + version log           *)
(*   src/transaction/transaction_manager.py  transaction registry         *)
(*   src/transaction.py                  transaction engine               *)
(*                                                                         *)
(* File contents are sequences of one-character strings.  Python indices  *)
(* are 0-based and half-open; they are kept as such in the operations and *)
(* translated to 1-based SubSeq only inside Slice.                         *)
(***************************************************************************)
EXTENDS Integers, Sequences, FiniteSets, TLC

(* ------------------------------ bounds -------------------------------- *)
MaxTime == 1
MaxBatches == 1
NumClients == 2
NumClientFiles == 1
MaxVersions == 3
MaxStamp == 2
MaxCount == 1
MaxLen == 3

\* The transaction objects and the files of the model.
Txns == 1..3
Files == 1..2
\* Spec: the transactions that clients drive with every operation at every
\* isolation level, and the files they use.
Clients == 1..NumClients
ClientFiles == 1..NumClientFiles
\* SpecRollback: two writers of file 2 and one writer of both files.
Racers == {1, 2}

Min(x, y) == IF x < y THEN x ELSE y
Max(x, y) == IF x > y THEN x ELSE y

(* ------------------------- diff_operations.py ------------------------- *)

\* Python's content[lo:hi] for 0 <= lo, with hi clamped to len(content).
Slice(s, lo, hi) ==
    LET h == Min(hi, Len(s))
    IN  IF lo >= h THEN <<>> ELSE SubSeq(s, lo + 1, h)

\* The three operation constructors.  An insert has no 'end' key in the
\* source; validate_operations reads it as op.get('end', start), so the
\* record carries end = start.  A delete carries no data.
ReplaceOperation(i1, i2, d) == [type |-> "replace", start |-> i1, end |-> i2, data |-> d]
DeleteOperation(i1, i2) == [type |-> "delete", start |-> i1, end |-> i2, data |-> <<>>]
InsertOperation(i1, d) == [type |-> "insert", start |-> i1, end |-> i1, data |-> d]

\* Length of the common run of a[i..] and b[j..] (0-based), inside [.., ahi) x [.., bhi).
RECURSIVE RunLen(_, _, _, _, _, _)
RunLen(a, b, i, j, ahi, bhi) ==
    IF i < ahi /\ j < bhi /\ a[i + 1] = b[j + 1]
    THEN 1 + RunLen(a, b, i + 1, j + 1, ahi, bhi)
    ELSE 0

\* difflib.SequenceMatcher.find_longest_match without junk: the longest
\* block a[i:i+k] = b[j:j+k] in the window; of all maximal blocks the one
\* that starts earliest in a, and of those the one that starts earliest in b.
\* No match: (alo, blo, 0).
find_longest_match(a, b, alo, ahi, blo, bhi) ==
    LET cands == {<<i, j>> \in (alo..(ahi - 1)) \X (blo..(bhi - 1)) :
                     RunLen(a, b, i, j, ahi, bhi) > 0}
    IN  IF cands = {} THEN [i |-> alo, j |-> blo, k |-> 0]
        ELSE LET best == CHOOSE c \in cands :
                     \A d \in cands :
                         LET kc == RunLen(a, b, c[1], c[2], ahi, bhi)
                             kd == RunLen(a, b, d[1], d[2], ahi, bhi)
                         IN  \/ kc > kd
                             \/ kc = kd /\ c[1] < d[1]
                             \/ kc = kd /\ c[1] = d[1] /\ c[2] <= d[2]
             IN  [i |-> best[1], j |-> best[2],
                  k |-> RunLen(a, b, best[1], best[2], ahi, bhi)]

\* difflib.SequenceMatcher.get_matching_blocks: the longest match, then the
\* same to its left and to its right; in ascending order.
RECURSIVE matching_blocks(_, _, _, _, _, _)
matching_blocks(a, b, alo, ahi, blo, bhi) ==
    LET m == find_longest_match(a, b, alo, ahi, blo, bhi)
    IN  IF m.k = 0 THEN <<>>
        ELSE (IF alo < m.i /\ blo < m.j
              THEN matching_blocks(a, b, alo, m.i, blo, m.j) ELSE <<>>)
             \o <<m>>
             \o (IF m.i + m.k < ahi /\ m.j + m.k < bhi
                 THEN matching_blocks(a, b, m.i + m.k, ahi, m.j + m.k, bhi) ELSE <<>>)

\* The loop of get_diff_operations over get_opcodes(): between matching
\* blocks, a gap on both sides is a replace, on the old side only a delete,
\* on the new side only an insert; 'equal' opcodes emit nothing.
RECURSIVE opcodes_to_operations(_, _, _, _, _)
opcodes_to_operations(new, blocks, n, i, j) ==
    IF n > Len(blocks) THEN <<>>
    ELSE LET ai == blocks[n].i
             bj == blocks[n].j
             op == IF i < ai /\ j < bj THEN <<ReplaceOperation(i, ai, Slice(new, j, bj))>>
                   ELSE IF i < ai THEN <<DeleteOperation(i, ai)>>
                   ELSE IF j < bj THEN <<InsertOperation(i, Slice(new, j, bj))>>
                   ELSE <<>>
         IN  op \o opcodes_to_operations(new, blocks, n + 1, ai + blocks[n].k, bj + blocks[n].k)

get_diff_operations(old, new) ==
    IF old = new THEN <<>>
    ELSE opcodes_to_operations(new,
             matching_blocks(old, new, 0, Len(old), 0, Len(new))
                 \o <<[i |-> Len(old), j |-> Len(new), k |-> 0]>>,
             1, 0, 0)

\* validate_operations: TRUE iff no operation raises ValueError.
validate_operations(content, operations) ==
    \A n \in 1..Len(operations) :
        LET op == operations[n]
        IN  /\ ~(op.start < 0 \/ op.start > Len(content))
            /\ ~(op.end < op.start \/ op.end > Len(content))

\* The operations left in the order get_diff_operations emits them, ascending start.
sorted_operations_ascending(operations) == operations

\* sorted(operations, key=start, reverse=True): stable, descending start.
RECURSIVE sorted_operations(_)
sorted_operations(operations) ==
    IF operations = <<>> THEN <<>>
    ELSE LET first == CHOOSE n \in 1..Len(operations) :
                 /\ \A m \in 1..Len(operations) : operations[m].start <= operations[n].start
                 /\ \A m \in 1..(n - 1) : operations[m].start < operations[n].start
             rest == [m \in 1..(Len(operations) - 1) |->
                          IF m < first THEN operations[m] ELSE operations[m + 1]]
         IN  <<operations[first]>> \o sorted_operations(rest)

ApplyOne(result, op) ==
    IF op.type = "replace"
        THEN Slice(result, 0, op.start) \o op.data \o Slice(result, op.end, Len(result))
    ELSE IF op.type = "insert"
        THEN Slice(result, 0, op.start) \o op.data \o Slice(result, op.start, Len(result))
    ELSE Slice(result, 0, op.start) \o Slice(result, op.end, Len(result))

RECURSIVE ApplySorted(_, _)
ApplySorted(result, ops) ==
    IF ops = <<>> THEN result
    ELSE ApplySorted(ApplyOne(result, Head(ops)), Tail(ops))

\* A value that is either a string or a raised ValueError ("Invalid ... index").
Ok(s) == [ok |-> TRUE, val |-> s]
InvalidIndex == [ok |-> FALSE, val |-> <<>>]

apply_diff_operations(content, operations) ==
    IF validate_operations(content, operations)
    THEN Ok(ApplySorted(content, sorted_operations(operations)))
    ELSE InvalidIndex

(* -------------------- datastore/file_lock_manager.py ------------------ *)

FileLock(lock_type, txn_ids) == [lock_type |-> lock_type, txn_ids |-> txn_ids]

\* acquire_lock without the check of the held mode for a new SHARED holder.
acquire_lock_any_shared(lk, file_id, txn_id, requested_lock_type) ==
    IF file_id \notin DOMAIN lk
    THEN [ret |-> TRUE,
          locks |-> [f \in DOMAIN lk \cup {file_id} |->
                        IF f = file_id THEN FileLock(requested_lock_type, {txn_id})
                        ELSE lk[f]]]
    ELSE IF txn_id \in lk[file_id].txn_ids
    THEN IF lk[file_id].lock_type = "SHARED" /\ requested_lock_type = "EXCLUSIVE"
         THEN [ret |-> FALSE, locks |-> lk]
         ELSE [ret |-> TRUE, locks |-> lk]
    ELSE IF requested_lock_type = "SHARED"
    THEN [ret |-> TRUE,
          locks |-> [lk EXCEPT ![file_id].txn_ids = @ \cup {txn_id}]]
    ELSE [ret |-> FALSE, locks |-> lk]

\* acquire_lock that upgrades the SHARED lock of a sole holder.
acquire_lock_upgrade(lk, file_id, txn_id, requested_lock_type) ==
    IF file_id \notin DOMAIN lk
    THEN [ret |-> TRUE,
          locks |-> [f \in DOMAIN lk \cup {file_id} |->
                        IF f = file_id THEN FileLock(requested_lock_type, {txn_id})
                        ELSE lk[f]]]
    ELSE IF txn_id \in lk[file_id].txn_ids
    THEN IF lk[file_id].lock_type = "SHARED" /\ requested_lock_type = "EXCLUSIVE"
         THEN IF lk[file_id].txn_ids = {txn_id}
              THEN [ret |-> TRUE, locks |-> [lk EXCEPT ![file_id].lock_type = "EXCLUSIVE"]]
              ELSE [ret |-> FALSE, locks |-> lk]
         ELSE [ret |-> TRUE, locks |-> lk]
    ELSE IF requested_lock_type = "SHARED" /\ lk[file_id].lock_type = "SHARED"
    THEN [ret |-> TRUE,
          locks |-> [lk EXCEPT ![file_id].txn_ids = @ \cup {txn_id}]]
    ELSE [ret |-> FALSE, locks |-> lk]

\* acquire_lock: the returned pair is (return value, _locks afterwards).
acquire_lock(lk, file_id, txn_id, requested_lock_type) ==
    IF file_id \notin DOMAIN lk
    THEN [ret |-> TRUE,
          locks |-> [f \in DOMAIN lk \cup {file_id} |->
                        IF f = file_id THEN FileLock(requested_lock_type, {txn_id})
                        ELSE lk[f]]]
    ELSE IF txn_id \in lk[file_id].txn_ids
    THEN IF lk[file_id].lock_type = "SHARED" /\ requested_lock_type = "EXCLUSIVE"
         THEN [ret |-> FALSE, locks |-> lk]
         ELSE [ret |-> TRUE, locks |-> lk]
    ELSE IF requested_lock_type = "SHARED" /\ lk[file_id].lock_type = "SHARED"
    THEN [ret |-> TRUE,
          locks |-> [lk EXCEPT ![file_id].txn_ids = @ \cup {txn_id}]]
    ELSE [ret |-> FALSE, locks |-> lk]

\* release_lock that drops the whole entry, whoever else holds it.
release_lock_drop_entry(lk, file_id, txn_id) ==
    IF file_id \notin DOMAIN lk THEN lk
    ELSE IF txn_id \notin lk[file_id].txn_ids THEN lk
    ELSE [f \in DOMAIN lk \ {file_id} |-> lk[f]]

\* release_lock: _locks afterwards.
release_lock(lk, file_id, txn_id) ==
    IF file_id \notin DOMAIN lk THEN lk
    ELSE IF txn_id \notin lk[file_id].txn_ids THEN lk
    ELSE IF lk[file_id].txn_ids \ {txn_id} = {}
    THEN [f \in DOMAIN lk \ {file_id} |-> lk[f]]
    ELSE [lk EXCEPT ![file_id].txn_ids = @ \ {txn_id}]

(* ----------------------- datastore/file_object.py --------------------- *)

FileVersion(diff_operations, timestamp) ==
    [diff_operations |-> diff_operations, timestamp |-> timestamp]

\* sorted(self._file_versions, key=timestamp): stable, ascending timestamp.
RECURSIVE sorted_versions(_)
sorted_versions(vs) ==
    IF vs = <<>> THEN <<>>
    ELSE LET first == CHOOSE n \in 1..Len(vs) :
                 /\ \A m \in 1..Len(vs) : vs[n].timestamp <= vs[m].timestamp
                 /\ \A m \in 1..(n - 1) : vs[n].timestamp < vs[m].timestamp
             rest == [m \in 1..(Len(vs) - 1) |-> IF m < first THEN vs[m] ELSE vs[m + 1]]
         IN  <<vs[first]>> \o sorted_versions(rest)

\* The loop of read_version_at_timestamp: stop at the first version later
\* than the timestamp; a batch that does not validate raises.
RECURSIVE ApplyVersions(_, _, _)
ApplyVersions(file_contents, vs, timestamp) ==
    IF vs = <<>> THEN Ok(file_contents)
    ELSE IF Head(vs).timestamp > timestamp THEN Ok(file_contents)
    ELSE LET r == apply_diff_operations(file_contents, Head(vs).diff_operations)
         IN  IF r.ok THEN ApplyVersions(r.val, Tail(vs), timestamp) ELSE InvalidIndex

read_version_at_timestamp(snap, vs, timestamp) ==
    ApplyVersions(snap, sorted_versions(vs), timestamp)

\* commit_version_at_timestamp: the version log afterwards, or a raised error
\* (ok = FALSE) when reading the previous version raises.
commit_version_at_timestamp(snap, vs, file_contents, timestamp) ==
    LET previous_version == read_version_at_timestamp(snap, vs, timestamp)
    IN  IF ~previous_version.ok THEN [ok |-> FALSE, versions |-> vs, appended |-> FALSE]
        ELSE [ok |-> TRUE, appended |-> TRUE,
              versions |-> Append(vs, FileVersion(
                  get_diff_operations(previous_version.val, file_contents), timestamp))]

\* rollback_commit: no version with the commit time: nothing to roll back;
\* otherwise append the diff from the state at commit time back to the state
\* at start time.  Either read may raise.
rollback_commit(snap, vs, txn_start_time, txn_commit_time, rollback_time) ==
    IF ~(\E n \in 1..Len(vs) : vs[n].timestamp = txn_commit_time)
    THEN [ok |-> TRUE, versions |-> vs, appended |-> FALSE]
    ELSE LET file_at_start_time == read_version_at_timestamp(snap, vs, txn_start_time)
             file_at_commit_time == read_version_at_timestamp(snap, vs, txn_commit_time)
         IN  IF ~file_at_start_time.ok \/ ~file_at_commit_time.ok
             THEN [ok |-> FALSE, versions |-> vs, appended |-> FALSE]
             ELSE [ok |-> TRUE, appended |-> TRUE,
                   versions |-> Append(vs, FileVersion(
                       get_diff_operations(file_at_commit_time.val, file_at_start_time.val),
                       rollback_time))]

\* The greatest timestamp of a non-empty version log.
max_version_time(vs) ==
    CHOOSE m \in {vs[n].timestamp : n \in 1..Len(vs)} :
        \A n \in 1..Len(vs) : vs[n].timestamp <= m

\* compact_file: what it returns ("true", "false", or "raise" when the read
\* raises) and the snapshot, version log and counter afterwards.
compact_file(snap, vs, count, commit_time) ==
    LET same(ret) == [ret |-> ret, snapshot |-> snap, versions |-> vs, count |-> count]
    IN  IF count > 0 THEN same("false")
        ELSE IF vs = <<>> THEN same("true")
        ELSE IF max_version_time(vs) > commit_time THEN same("false")
        ELSE LET latest_version == read_version_at_timestamp(snap, vs, commit_time)
             IN  IF ~latest_version.ok THEN same("raise")
                 ELSE [ret |-> "true", snapshot |-> latest_version.val, versions |-> <<>>,
                       count |-> count - 1]

increment_transaction_count(count) == count + 1

decrement_transaction_count(count) == count - 1

(* ---------------- transaction/transaction_manager.py ------------------ *)

\* end_time = None
NoTime == -1

create_transaction_metadata(tr, txn_id, st) ==
    [t \in DOMAIN tr \cup {txn_id} |->
        IF t = txn_id THEN [start_time |-> st, status |-> "ACTIVE", end_time |-> NoTime]
        ELSE tr[t]]

\* A datetime is always truthy, so a given end_time always replaces the old one.
update_transaction_metadata(tr, txn_id, status, end_time) ==
    [tr EXCEPT ![txn_id] = [start_time |-> @.start_time,
                            status |-> status,
                            end_time |-> IF end_time # NoTime THEN end_time ELSE @.end_time]]

(* ----------------------------- transaction.py ------------------------- *)

IsolationLevel == {"READ_UNCOMMITTED", "READ_COMMITTED", "SNAPSHOT"}

TerminalStatus == {"COMMITTED", "ABORTED", "FAILED", "ROLLED_BACK", "ROLLBACK_FAILED"}

\* What a client passes to write_file: the batches File.write computes with
\* get_diff_operations(file_at_read, content) over these contents.
Contents == {<<>>, <<"a">>}
WriteBatches == {get_diff_operations(o, n) : o \in Contents, n \in Contents}

VARIABLES
    now,              \* the clock read by datetime.now(); it may return the same value twice
    snapshot,         \* FileObject._snapshot, per file
    file_versions,    \* FileObject._file_versions, per file, in append order
    version_txn,      \* history: who appended each version, and by commit or by rollback
    locks,            \* FileLockManager._locks: file_id -> FileLock, only for locked files
    transactions,     \* TransactionManager.transactions: txn_id -> TransactionData
    is_active,        \* Transaction._is_active
    start_time,       \* Transaction._start_time
    isolation_level,  \* Transaction._isolation_level
    modified_files,   \* Transaction._modified_files, in insertion order
    pc,               \* where the thread that drives the transaction is
    read_file_id,     \* read_file: the file being read while the SHARED lock is held
    acquired_locks,   \* commit: acquired_locks (as left by the last commit attempt)
    commit_time,      \* commit: commit_time
    loop_idx,         \* _commit_file_changes / _rollback: position in the loop
    updated_file,     \* _commit_file_changes: updated_file
    rollback_logs,    \* _commit_file_changes: rollback_logs
    rollback_time,    \* _rollback: rollback_time
    commit_view,      \* history: updated_file of every file of the running commit
    outcome,          \* the operation that ended last: transaction, operation, error raised
    read_log,         \* per transaction: its last successful client read (file, string,
                      \* length of the version log)
    lock_call,        \* the last direct call of the lock manager and what it returned
    active_transaction_count,  \* FileObject._active_transaction_count, per file
    open_count,       \* per file: increment_transaction_count calls not yet matched
    file_call,        \* the last direct call of a FileObject method and what it returned
    diff_call,        \* the last direct call of get_diff_operations and what came of it
    attempt           \* history, per transaction: how its commit attempt fared at the
                      \* locks, the lock that refused it and who held it, and the
                      \* transactions whose commit attempts ran during it

fileVars == <<snapshot, file_versions, version_txn>>
txnVars == <<transactions, is_active, start_time, isolation_level, modified_files>>
localVars == <<read_file_id, acquired_locks, commit_time, loop_idx, updated_file,
               rollback_logs, rollback_time, commit_view>>
callVars == <<active_transaction_count, open_count, file_call, diff_call, attempt>>

vars == <<now, fileVars, locks, txnVars, pc, localVars, outcome, read_log, lock_call,
          callVars>>

NoRead == [file_id |-> 0, val |-> <<>>, versions |-> 0]
NoCall == [op |-> "none", file_id |-> 0, txn_id |-> 0, requested |-> "none",
           ret |-> FALSE, before |-> <<>>]

NoFileCall == [op |-> "none", file_id |-> 0, args |-> <<>>, ret |-> "none"]

NoDiffCall == [op |-> "none", old |-> <<>>, new |-> <<>>, operations |-> <<>>,
               applied |-> Ok(<<>>)]

NoAttempt == [state |-> "none", blocked_on |-> 0, blocked_by |-> {}, overlapped |-> {}]

ModifiedFile(file_id) == [file_id |-> file_id, file_diff_operations |-> <<>>]
RollbackLog(file_id, st, ct) == [file_id |-> file_id, txn_start_time |-> st, txn_commit_time |-> ct]

Keys(mf) == {mf[n].file_id : n \in 1..Len(mf)}

\* sorted(self._modified_files.keys())
RECURSIVE SortedSeq(_)
SortedSeq(S) ==
    IF S = {} THEN <<>>
    ELSE LET m == CHOOSE x \in S : \A y \in S : x <= y
         IN  <<m>> \o SortedSeq(S \ {m})

\* self._modified_files[file_id].file_diff_operations, or nothing when absent
BatchesOf(mf, file_id) ==
    IF file_id \in Keys(mf)
    THEN mf[CHOOSE n \in 1..Len(mf) : mf[n].file_id = file_id].file_diff_operations
    ELSE <<>>

\* read_file applying the buffered batches last-appended first.
RECURSIVE ApplyBatches_newest_first(_, _)
ApplyBatches_newest_first(file_snapshot, batches) ==
    IF ~file_snapshot.ok THEN InvalidIndex
    ELSE IF batches = <<>> THEN file_snapshot
    ELSE ApplyBatches_newest_first(
             apply_diff_operations(file_snapshot.val, batches[Len(batches)]),
             SubSeq(batches, 1, Len(batches) - 1))

\* read_file, lines 62-67: the buffered batches applied in append order.
RECURSIVE ApplyBatches(_, _)
ApplyBatches(file_snapshot, batches) ==
    IF ~file_snapshot.ok THEN InvalidIndex
    ELSE IF batches = <<>> THEN file_snapshot
    ELSE ApplyBatches(apply_diff_operations(file_snapshot.val, Head(batches)), Tail(batches))

\* The timestamp _get_file_by_isolation_level reads at.
ReadTimestamp(t) == IF isolation_level[t] = "SNAPSHOT" THEN start_time[t] ELSE now

\* A commit whose finally block releases nothing.
ReleaseAll_none(lk, acquired, txn_id) == lk

\* commit's finally: release every lock in acquired_locks.
RECURSIVE ReleaseAll(_, _, _)
ReleaseAll(lk, acquired, txn_id) ==
    IF acquired = <<>> THEN lk
    ELSE ReleaseAll(release_lock(lk, Head(acquired), txn_id), Tail(acquired), txn_id)

Outcome(t, op, err) == [txn |-> t, op |-> op, err |-> err]

\* _end_transaction
EndTransaction(t, status) ==
    /\ is_active' = [is_active EXCEPT ![t] = FALSE]
    /\ transactions' = update_transaction_metadata(transactions, t, status, now)
    /\ modified_files' = [modified_files EXCEPT ![t] = <<>>]

\* _validate_txn_is_active that records FAILED and lets the operation return.
FailInactive_noraise(t, op) ==
    /\ EndTransaction(t, "FAILED")
    /\ outcome' = Outcome(t, op, "ok")
    /\ UNCHANGED <<now, fileVars, locks, start_time, isolation_level, pc, localVars,
                   read_log, lock_call, callVars>>

\* _validate_txn_is_active on a transaction that is not active: record FAILED and raise.
FailInactive(t, op) ==
    /\ EndTransaction(t, "FAILED")
    /\ outcome' = Outcome(t, op, "InactiveTransaction")
    /\ UNCHANGED <<now, fileVars, locks, start_time, isolation_level, pc, localVars,
                   read_log, lock_call, callVars>>

\* The files when the transactions of the model start: as FileObject.__init__
\* and an earlier transaction left them, which wrote "a" and committed at time 0.
InitVersions(f) == <<FileVersion(get_diff_operations(<<>>, <<"a">>), 0)>>

Init ==
    /\ now = 0
    /\ snapshot = [f \in Files |-> <<>>]
    /\ file_versions = [f \in Files |-> InitVersions(f)]
    /\ version_txn = [f \in Files |-> [n \in 1..Len(file_versions[f]) |->
                                          [txn |-> 0, kind |-> "commit"]]]
    /\ locks = <<>>
    /\ transactions = <<>>
    /\ is_active = [t \in Txns |-> FALSE]
    /\ start_time = [t \in Txns |-> NoTime]
    /\ isolation_level = [t \in Txns |-> "SNAPSHOT"]
    /\ modified_files = [t \in Txns |-> <<>>]
    /\ pc = [t \in Txns |-> "new"]
    /\ read_file_id = [t \in Txns |-> 0]
    /\ acquired_locks = [t \in Txns |-> <<>>]
    /\ commit_time = [t \in Txns |-> NoTime]
    /\ loop_idx = [t \in Txns |-> 0]
    /\ updated_file = [t \in Txns |-> <<>>]
    /\ rollback_logs = [t \in Txns |-> <<>>]
    /\ rollback_time = [t \in Txns |-> NoTime]
    /\ commit_view = [t \in Txns |-> <<>>]
    /\ outcome = Outcome(0, "none", "none")
    /\ read_log = [t \in Txns |-> NoRead]
    /\ lock_call = NoCall
    /\ active_transaction_count = [f \in Files |-> 0]
    /\ open_count = [f \in Files |-> 0]
    /\ file_call = NoFileCall
    /\ diff_call = NoDiffCall
    /\ attempt = [t \in Txns |-> NoAttempt]

\* datetime.now() advances.
Tick ==
    /\ now < MaxTime
    /\ now' = now + 1
    /\ UNCHANGED <<fileVars, locks, txnVars, pc, localVars, outcome, read_log, lock_call, callVars>>

\* Transaction.__init__
Begin(t, iso) ==
    /\ pc[t] = "new"
    /\ pc' = [pc EXCEPT ![t] = "idle"]
    /\ start_time' = [start_time EXCEPT ![t] = now]
    /\ isolation_level' = [isolation_level EXCEPT ![t] = iso]
    /\ is_active' = [is_active EXCEPT ![t] = TRUE]
    /\ modified_files' = [modified_files EXCEPT ![t] = <<>>]
    /\ transactions' = create_transaction_metadata(transactions, t, now)
    /\ UNCHANGED <<now, fileVars, locks, localVars, outcome, read_log, lock_call, callVars>>

\* The end of a client's read_file: the value returned or the error raised.
FinishRead(t, file_id, result) ==
    /\ outcome' = Outcome(t, "read", IF result.ok THEN "ok" ELSE "InvalidIndex")
    /\ read_log' = IF result.ok
                   THEN [read_log EXCEPT ![t] = [file_id |-> file_id, val |-> result.val,
                                                 versions |-> Len(file_versions[file_id])]]
                   ELSE read_log

\* read_file on an active transaction up to the acquisition of the SHARED
\* lock; READ_UNCOMMITTED takes no lock and reads at once.
ReadActive(t, file_id) ==
    IF isolation_level[t] = "READ_UNCOMMITTED"
    THEN /\ FinishRead(t, file_id,
                ApplyBatches(read_version_at_timestamp(snapshot[file_id],
                                 file_versions[file_id], now),
                             BatchesOf(modified_files[t], file_id)))
         /\ UNCHANGED <<now, fileVars, locks, txnVars, pc, localVars, lock_call, callVars>>
    ELSE LET a == acquire_lock(locks, file_id, t, "SHARED")
         IN  IF ~a.ret
             THEN /\ outcome' = Outcome(t, "read", "LockConflict")
                  /\ UNCHANGED <<now, fileVars, locks, txnVars, pc, localVars,
                                 read_log, lock_call, callVars>>
             ELSE /\ locks' = a.locks
                  /\ pc' = [pc EXCEPT ![t] = "read_locked"]
                  /\ read_file_id' = [read_file_id EXCEPT ![t] = file_id]
                  /\ UNCHANGED <<now, fileVars, txnVars, acquired_locks, commit_time,
                                 loop_idx, updated_file, rollback_logs, rollback_time,
                                 commit_view, outcome, read_log, lock_call, callVars>>

\* read_file: validate, then read.
ReadFile(t, file_id) ==
    /\ pc[t] = "idle"
    /\ IF ~is_active[t] THEN FailInactive(t, "read")
       ELSE ReadActive(t, file_id)

\* read_file under the SHARED lock without the release of the lock.
ReadLocked_keep(t) ==
    /\ pc[t] = "read_locked"
    /\ LET file_id == read_file_id[t]
           file_snapshot == read_version_at_timestamp(snapshot[file_id],
                                file_versions[file_id], ReadTimestamp(t))
       IN  FinishRead(t, file_id,
               ApplyBatches(file_snapshot, BatchesOf(modified_files[t], file_id)))
    /\ pc' = [pc EXCEPT ![t] = "idle"]
    /\ read_file_id' = [read_file_id EXCEPT ![t] = 0]
    /\ UNCHANGED <<now, fileVars, locks, txnVars, acquired_locks, commit_time, loop_idx,
                   updated_file, rollback_logs, rollback_time, commit_view, lock_call, callVars>>

\* read_file under the SHARED lock: read the version, release (finally), apply
\* the buffered batches.
ReadLocked(t) ==
    /\ pc[t] = "read_locked"
    /\ LET file_id == read_file_id[t]
           file_snapshot == read_version_at_timestamp(snapshot[file_id],
                                file_versions[file_id], ReadTimestamp(t))
       IN  /\ locks' = release_lock(locks, file_id, t)
           /\ FinishRead(t, file_id,
                  ApplyBatches(file_snapshot, BatchesOf(modified_files[t], file_id)))
    /\ pc' = [pc EXCEPT ![t] = "idle"]
    /\ read_file_id' = [read_file_id EXCEPT ![t] = 0]
    /\ UNCHANGED <<now, fileVars, txnVars, acquired_locks, commit_time, loop_idx,
                   updated_file, rollback_logs, rollback_time, commit_view, lock_call, callVars>>

\* The clients stop buffering for a file at cap batches; an empty batch is
\* not buffered (write_file, line 80) and is always allowed.
BatchRoom(t, file_id, file_diff_operations, cap) ==
    Len(BatchesOf(modified_files[t], file_id)) < cap \/ file_diff_operations = <<>>

\* write_file without the check of the isolation level.
WriteFile_any_level(t, file_id, file_diff_operations) ==
    /\ pc[t] = "idle"
    /\ IF ~is_active[t] THEN FailInactive(t, "write")
       ELSE LET registered == IF file_id \in Keys(modified_files[t]) THEN modified_files[t]
                              ELSE Append(modified_files[t], ModifiedFile(file_id))
                n == CHOOSE m \in 1..Len(registered) : registered[m].file_id = file_id
            IN  /\ modified_files' = [modified_files EXCEPT ![t] =
                       IF file_diff_operations # <<>>
                       THEN [registered EXCEPT ![n].file_diff_operations =
                                Append(@, file_diff_operations)]
                       ELSE registered]
                /\ outcome' = Outcome(t, "write", "ok")
                /\ UNCHANGED <<now, fileVars, locks, transactions, is_active, start_time,
                               isolation_level, pc, localVars, read_log, lock_call, callVars>>

\* write_file that takes and releases a SHARED lock on the file and is
\* refused when the lock is.
WriteFile_under_lock(t, file_id, file_diff_operations) ==
    /\ pc[t] = "idle"
    /\ IF ~is_active[t] THEN FailInactive(t, "write")
       ELSE IF isolation_level[t] \in {"READ_COMMITTED", "READ_UNCOMMITTED"}
       THEN /\ outcome' = Outcome(t, "write", "WriteNotPermittedAtIsolation")
            /\ UNCHANGED <<now, fileVars, locks, txnVars, pc, localVars, read_log,
                           lock_call, callVars>>
       ELSE IF ~acquire_lock(locks, file_id, t, "SHARED").ret
       THEN /\ outcome' = Outcome(t, "write", "LockConflict")
            /\ UNCHANGED <<now, fileVars, locks, txnVars, pc, localVars, read_log,
                           lock_call, callVars>>
       ELSE LET registered == IF file_id \in Keys(modified_files[t]) THEN modified_files[t]
                              ELSE Append(modified_files[t], ModifiedFile(file_id))
                n == CHOOSE m \in 1..Len(registered) : registered[m].file_id = file_id
            IN  /\ modified_files' = [modified_files EXCEPT ![t] =
                       IF file_diff_operations # <<>>
                       THEN [registered EXCEPT ![n].file_diff_operations =
                                Append(@, file_diff_operations)]
                       ELSE registered]
                /\ outcome' = Outcome(t, "write", "ok")
                /\ UNCHANGED <<now, fileVars, locks, transactions, is_active, start_time,
                               isolation_level, pc, localVars, read_log, lock_call, callVars>>

\* write_file
WriteFile(t, file_id, file_diff_operations) ==
    /\ pc[t] = "idle"
    /\ IF ~is_active[t] THEN FailInactive(t, "write")
       ELSE IF isolation_level[t] \in {"READ_COMMITTED", "READ_UNCOMMITTED"}
       THEN /\ outcome' = Outcome(t, "write", "WriteNotPermittedAtIsolation")
            /\ UNCHANGED <<now, fileVars, locks, txnVars, pc, localVars, read_log,
                           lock_call, callVars>>
       ELSE LET registered == IF file_id \in Keys(modified_files[t]) THEN modified_files[t]
                              ELSE Append(modified_files[t], ModifiedFile(file_id))
                n == CHOOSE m \in 1..Len(registered) : registered[m].file_id = file_id
            IN  /\ modified_files' = [modified_files EXCEPT ![t] =
                       IF file_diff_operations # <<>>
                       THEN [registered EXCEPT ![n].file_diff_operations =
                                Append(@, file_diff_operations)]
                       ELSE registered]
                /\ outcome' = Outcome(t, "write", "ok")
                /\ UNCHANGED <<now, fileVars, locks, transactions, is_active, start_time,
                               isolation_level, pc, localVars, read_log, lock_call, callVars>>

\* abort
Abort(t) ==
    /\ pc[t] = "idle"
    /\ IF ~is_active[t] THEN FailInactive(t, "abort")
       ELSE /\ EndTransaction(t, "ABORTED")
            /\ outcome' = Outcome(t, "abort", "ok")
            /\ UNCHANGED <<now, fileVars, locks, start_time, isolation_level, pc, localVars,
                           read_log, lock_call, callVars>>

\* An exit of commit with a raised error: the finally clause releases the
\* acquired locks; the transaction stays as it is.
CommitRaise(t, lk, err) ==
    /\ locks' = ReleaseAll(lk, acquired_locks[t], t)
    /\ outcome' = Outcome(t, "commit", err)
    /\ pc' = [pc EXCEPT ![t] = "idle"]
    /\ commit_time' = [commit_time EXCEPT ![t] = NoTime]
    /\ loop_idx' = [loop_idx EXCEPT ![t] = 0]
    /\ updated_file' = [updated_file EXCEPT ![t] = <<>>]
    /\ rollback_logs' = [rollback_logs EXCEPT ![t] = <<>>]
    /\ rollback_time' = [rollback_time EXCEPT ![t] = NoTime]
    /\ commit_view' = [commit_view EXCEPT ![t] = <<>>]
    /\ UNCHANGED <<read_file_id, acquired_locks>>

\* The lock loop of commit without the release of the locks taken so far when
\* an acquisition is refused.
AcquireNext_keep(t, acquired) ==
    LET keys == SortedSeq(Keys(modified_files[t]))
        file_id == keys[Len(acquired) + 1]
        a == acquire_lock(locks, file_id, t, "EXCLUSIVE")
    IN  IF ~a.ret
        THEN /\ locks' = a.locks
             /\ acquired_locks' = [acquired_locks EXCEPT ![t] = acquired]
             /\ outcome' = Outcome(t, "commit", "LockConflict")
             /\ pc' = [pc EXCEPT ![t] = "idle"]
             /\ UNCHANGED <<commit_time, loop_idx>>
        ELSE /\ locks' = a.locks
             /\ acquired_locks' = [acquired_locks EXCEPT ![t] = Append(acquired, file_id)]
             /\ UNCHANGED outcome
             /\ IF Len(acquired) + 1 = Len(keys)
                THEN /\ commit_time' = [commit_time EXCEPT ![t] = now]
                     /\ loop_idx' = [loop_idx EXCEPT ![t] = 1]
                     /\ pc' = [pc EXCEPT ![t] = "commit_read"]
                ELSE /\ pc' = [pc EXCEPT ![t] = "commit_lock"]
                     /\ UNCHANGED <<commit_time, loop_idx>>

\* The lock loop of commit with an acquisition that waits until the lock is
\* granted instead of returning False.
AcquireNext_wait(t, acquired) ==
    LET keys == SortedSeq(Keys(modified_files[t]))
        file_id == keys[Len(acquired) + 1]
        a == acquire_lock(locks, file_id, t, "EXCLUSIVE")
    IN  /\ a.ret
        /\ locks' = a.locks
        /\ acquired_locks' = [acquired_locks EXCEPT ![t] = Append(acquired, file_id)]
        /\ UNCHANGED outcome
        /\ IF Len(acquired) + 1 = Len(keys)
           THEN /\ commit_time' = [commit_time EXCEPT ![t] = now]
                /\ loop_idx' = [loop_idx EXCEPT ![t] = 1]
                /\ pc' = [pc EXCEPT ![t] = "commit_read"]
           ELSE /\ pc' = [pc EXCEPT ![t] = "commit_lock"]
                /\ UNCHANGED <<commit_time, loop_idx>>

\* commit, lines 93-101: one turn of the loop that takes the EXCLUSIVE locks in
\* sorted file_id order; after the last one commit_time is sampled and
\* _commit_file_changes starts.
AcquireNext(t, acquired) ==
    LET keys == SortedSeq(Keys(modified_files[t]))
        file_id == keys[Len(acquired) + 1]
        a == acquire_lock(locks, file_id, t, "EXCLUSIVE")
    IN  IF ~a.ret
        THEN /\ locks' = ReleaseAll(a.locks, acquired, t)
             /\ acquired_locks' = [acquired_locks EXCEPT ![t] = acquired]
             /\ outcome' = Outcome(t, "commit", "LockConflict")
             /\ pc' = [pc EXCEPT ![t] = "idle"]
             /\ UNCHANGED <<commit_time, loop_idx>>
        ELSE /\ locks' = a.locks
             /\ acquired_locks' = [acquired_locks EXCEPT ![t] = Append(acquired, file_id)]
             /\ UNCHANGED outcome
             /\ IF Len(acquired) + 1 = Len(keys)
                THEN /\ commit_time' = [commit_time EXCEPT ![t] = now]
                     /\ loop_idx' = [loop_idx EXCEPT ![t] = 1]
                     /\ pc' = [pc EXCEPT ![t] = "commit_read"]
                ELSE /\ pc' = [pc EXCEPT ![t] = "commit_lock"]
                     /\ UNCHANGED <<commit_time, loop_idx>>

\* commit that, with nothing modified, is refused while another transaction
\* holds a lock on some file.
Commit_refused_by_locks(t) ==
    /\ pc[t] = "idle"
    /\ IF ~is_active[t] THEN FailInactive(t, "commit")
       ELSE IF modified_files[t] = <<>> /\ \E f \in DOMAIN locks : locks[f].txn_ids # {t}
       THEN /\ outcome' = Outcome(t, "commit", "LockConflict")
            /\ UNCHANGED <<now, fileVars, locks, txnVars, pc, localVars, read_log,
                           lock_call, callVars>>
       ELSE IF modified_files[t] = <<>>
       THEN /\ EndTransaction(t, "COMMITTED")
            /\ outcome' = Outcome(t, "commit", "ok")
            /\ UNCHANGED <<now, fileVars, locks, start_time, isolation_level, pc, localVars,
                           read_log, lock_call, callVars>>
       ELSE /\ AcquireNext(t, <<>>)
            /\ UNCHANGED <<now, fileVars, txnVars, read_file_id, updated_file, rollback_logs,
                           rollback_time, commit_view, read_log, lock_call, callVars>>

\* commit, lines 84-97: validate; nothing modified: COMMITTED at once;
\* otherwise the first turn of the lock loop.
Commit(t) ==
    /\ pc[t] = "idle"
    /\ IF ~is_active[t] THEN FailInactive(t, "commit")
       ELSE IF modified_files[t] = <<>>
       THEN /\ EndTransaction(t, "COMMITTED")
            /\ outcome' = Outcome(t, "commit", "ok")
            /\ UNCHANGED <<now, fileVars, locks, start_time, isolation_level, pc, localVars,
                           read_log, lock_call, callVars>>
       ELSE /\ AcquireNext(t, <<>>)
            /\ UNCHANGED <<now, fileVars, txnVars, read_file_id, updated_file, rollback_logs,
                           rollback_time, commit_view, read_log, lock_call, callVars>>

\* commit, lines 93-97: a later turn of the lock loop.
CommitAcquire(t) ==
    /\ pc[t] = "commit_lock"
    /\ AcquireNext(t, acquired_locks[t])
    /\ UNCHANGED <<now, fileVars, txnVars, read_file_id, updated_file, rollback_logs,
                   rollback_time, commit_view, read_log, lock_call, callVars>>

\* _commit_file_changes, lines 127-133: read_file on the next modified file
\* (SHARED lock taken, version read, lock released, batches applied) and the
\* rollback log entry.  An error of read_file is not caught here.
CommitRead(t) ==
    /\ pc[t] = "commit_read"
    /\ LET file_id == modified_files[t][loop_idx[t]].file_id
           locked == isolation_level[t] # "READ_UNCOMMITTED"
           a == IF locked THEN acquire_lock(locks, file_id, t, "SHARED")
                ELSE [ret |-> TRUE, locks |-> locks]
           file_snapshot == read_version_at_timestamp(snapshot[file_id],
                                file_versions[file_id], ReadTimestamp(t))
           released == IF locked THEN release_lock(a.locks, file_id, t) ELSE a.locks
           result == ApplyBatches(file_snapshot, BatchesOf(modified_files[t], file_id))
       IN  IF ~a.ret
           THEN /\ CommitRaise(t, a.locks, "LockConflict")
                /\ UNCHANGED <<now, fileVars, txnVars, read_log, lock_call, callVars>>
           ELSE IF ~result.ok
           THEN /\ CommitRaise(t, released, "InvalidIndex")
                /\ UNCHANGED <<now, fileVars, txnVars, read_log, lock_call, callVars>>
           ELSE /\ locks' = released
                /\ updated_file' = [updated_file EXCEPT ![t] = result.val]
                /\ commit_view' = [commit_view EXCEPT ![t] = Append(@, result.val)]
                /\ rollback_logs' = [rollback_logs EXCEPT ![t] =
                       Append(@, RollbackLog(file_id, start_time[t], commit_time[t]))]
                /\ pc' = [pc EXCEPT ![t] = "commit_write"]
                /\ UNCHANGED <<now, fileVars, txnVars, read_file_id, acquired_locks,
                               commit_time, loop_idx, rollback_time, outcome, read_log,
                               lock_call, callVars>>

\* _commit_file_changes, lines 135-139: commit_version_at_timestamp; when it
\* raises, _rollback starts and samples rollback_time.
CommitWrite(t) ==
    /\ pc[t] = "commit_write"
    /\ LET file_id == modified_files[t][loop_idx[t]].file_id
           c == commit_version_at_timestamp(snapshot[file_id], file_versions[file_id],
                                            updated_file[t], commit_time[t])
       IN  IF c.ok
           THEN /\ Len(file_versions[file_id]) < MaxVersions
                /\ file_versions' = [file_versions EXCEPT ![file_id] = c.versions]
                /\ version_txn' = [version_txn EXCEPT ![file_id] =
                       Append(@, [txn |-> t, kind |-> "commit"])]
                /\ IF loop_idx[t] = Len(modified_files[t])
                   THEN /\ pc' = [pc EXCEPT ![t] = "commit_end"]
                        /\ UNCHANGED loop_idx
                   ELSE /\ pc' = [pc EXCEPT ![t] = "commit_read"]
                        /\ loop_idx' = [loop_idx EXCEPT ![t] = @ + 1]
                /\ UNCHANGED <<now, snapshot, locks, txnVars, read_file_id, acquired_locks,
                               commit_time, updated_file, rollback_logs, rollback_time,
                               commit_view, outcome, read_log, lock_call, callVars>>
           ELSE /\ rollback_time' = [rollback_time EXCEPT ![t] = now]
                /\ loop_idx' = [loop_idx EXCEPT ![t] = 1]
                /\ pc' = [pc EXCEPT ![t] = "rollback"]
                /\ UNCHANGED <<now, fileVars, locks, txnVars, read_file_id, acquired_locks,
                               commit_time, updated_file, rollback_logs, commit_view,
                               outcome, read_log, lock_call, callVars>>

\* The end of a commit in _end_transaction(status), then the raise (if any)
\* and commit's finally clause.
CommitFinish(t, status, err) ==
    /\ EndTransaction(t, status)
    /\ locks' = ReleaseAll(locks, acquired_locks[t], t)
    /\ outcome' = Outcome(t, "commit", err)
    /\ pc' = [pc EXCEPT ![t] = "idle"]
    /\ commit_time' = [commit_time EXCEPT ![t] = NoTime]
    /\ loop_idx' = [loop_idx EXCEPT ![t] = 0]
    /\ updated_file' = [updated_file EXCEPT ![t] = <<>>]
    /\ rollback_logs' = [rollback_logs EXCEPT ![t] = <<>>]
    /\ rollback_time' = [rollback_time EXCEPT ![t] = NoTime]
    /\ commit_view' = [commit_view EXCEPT ![t] = <<>>]
    /\ UNCHANGED <<now, start_time, isolation_level, read_file_id, acquired_locks,
                   read_log, lock_call, callVars>>

\* _rollback: one turn of the loop over rollback_logs, or its end.
Rollback(t) ==
    /\ pc[t] = "rollback"
    /\ IF loop_idx[t] <= Len(rollback_logs[t])
       THEN LET rollback_log == rollback_logs[t][loop_idx[t]]
                file_id == rollback_log.file_id
                r == rollback_commit(snapshot[file_id], file_versions[file_id],
                                     rollback_log.txn_start_time,
                                     rollback_log.txn_commit_time, rollback_time[t])
            IN  IF r.ok
                THEN /\ Len(r.versions) <= MaxVersions + 1
                     /\ file_versions' = [file_versions EXCEPT ![file_id] = r.versions]
                     /\ version_txn' = [version_txn EXCEPT ![file_id] =
                            IF r.appended THEN Append(@, [txn |-> t, kind |-> "rollback"])
                            ELSE @]
                     /\ loop_idx' = [loop_idx EXCEPT ![t] = @ + 1]
                     /\ UNCHANGED <<now, snapshot, locks, txnVars, pc, read_file_id,
                                    acquired_locks, commit_time, updated_file, rollback_logs,
                                    rollback_time, commit_view, outcome, read_log, lock_call, callVars>>
                ELSE /\ CommitFinish(t, "ROLLBACK_FAILED", "Critical")
                     /\ UNCHANGED fileVars
       ELSE /\ CommitFinish(t, "ROLLED_BACK", "CommitFailed")
            /\ UNCHANGED fileVars

\* commit, lines 103-107: COMMITTED, then the finally clause.
CommitEnd(t) ==
    /\ pc[t] = "commit_end"
    /\ CommitFinish(t, "COMMITTED", "ok")
    /\ UNCHANGED fileVars

\* Whether the thread of transaction u is inside commit.
InAttempt(u) ==
    pc[u] \in {"commit_lock", "commit_release", "commit_read", "commit_write",
               "commit_end", "rollback"}

\* The lock loop of commit taking the files in the order they were written
\* (the order of _modified_files.keys()) instead of sorted order.
TryNext_insertion_order(t, acquired, att) ==
    LET keys == [n \in 1..Len(modified_files[t]) |-> modified_files[t][n].file_id]
        file_id == keys[Len(acquired) + 1]
        a == acquire_lock(locks, file_id, t, "EXCLUSIVE")
    IN  IF ~a.ret
        THEN /\ attempt' = [att EXCEPT ![t].state = "failed",
                                       ![t].blocked_on = file_id,
                                       ![t].blocked_by = locks[file_id].txn_ids \ {t}]
             /\ acquired_locks' = [acquired_locks EXCEPT ![t] = acquired]
             /\ UNCHANGED <<locks, commit_time>>
             /\ IF acquired = <<>>
                THEN /\ outcome' = Outcome(t, "commit", "LockConflict")
                     /\ pc' = [pc EXCEPT ![t] = "idle"]
                     /\ UNCHANGED loop_idx
                ELSE /\ pc' = [pc EXCEPT ![t] = "commit_release"]
                     /\ loop_idx' = [loop_idx EXCEPT ![t] = 1]
                     /\ UNCHANGED outcome
        ELSE /\ locks' = a.locks
             /\ acquired_locks' = [acquired_locks EXCEPT ![t] = Append(acquired, file_id)]
             /\ UNCHANGED outcome
             /\ IF Len(acquired) + 1 = Len(keys)
                THEN /\ attempt' = [att EXCEPT ![t].state = "acquired"]
                     /\ commit_time' = [commit_time EXCEPT ![t] = now]
                     /\ loop_idx' = [loop_idx EXCEPT ![t] = 1]
                     /\ pc' = [pc EXCEPT ![t] = "commit_read"]
                ELSE /\ attempt' = [att EXCEPT ![t].state = "locking"]
                     /\ pc' = [pc EXCEPT ![t] = "commit_lock"]
                     /\ UNCHANGED <<commit_time, loop_idx>>

\* commit, lines 93-101, one call of acquire_lock per step: one turn of the
\* loop over sorted(_modified_files.keys()).  A refusal raises; the locks
\* taken so far stay held until the finally clause releases them, one call of
\* release_lock at a time (CommitRelease); with none taken the error leaves
\* commit at once.  After the last lock commit_time is sampled.
TryNext(t, acquired, att) ==
    LET keys == SortedSeq(Keys(modified_files[t]))
        file_id == keys[Len(acquired) + 1]
        a == acquire_lock(locks, file_id, t, "EXCLUSIVE")
    IN  IF ~a.ret
        THEN /\ attempt' = [att EXCEPT ![t].state = "failed",
                                       ![t].blocked_on = file_id,
                                       ![t].blocked_by = locks[file_id].txn_ids \ {t}]
             /\ acquired_locks' = [acquired_locks EXCEPT ![t] = acquired]
             /\ UNCHANGED <<locks, commit_time>>
             /\ IF acquired = <<>>
                THEN /\ outcome' = Outcome(t, "commit", "LockConflict")
                     /\ pc' = [pc EXCEPT ![t] = "idle"]
                     /\ UNCHANGED loop_idx
                ELSE /\ pc' = [pc EXCEPT ![t] = "commit_release"]
                     /\ loop_idx' = [loop_idx EXCEPT ![t] = 1]
                     /\ UNCHANGED outcome
        ELSE /\ locks' = a.locks
             /\ acquired_locks' = [acquired_locks EXCEPT ![t] = Append(acquired, file_id)]
             /\ UNCHANGED outcome
             /\ IF Len(acquired) + 1 = Len(keys)
                THEN /\ attempt' = [att EXCEPT ![t].state = "acquired"]
                     /\ commit_time' = [commit_time EXCEPT ![t] = now]
                     /\ loop_idx' = [loop_idx EXCEPT ![t] = 1]
                     /\ pc' = [pc EXCEPT ![t] = "commit_read"]
                ELSE /\ attempt' = [att EXCEPT ![t].state = "locking"]
                     /\ pc' = [pc EXCEPT ![t] = "commit_lock"]
                     /\ UNCHANGED <<commit_time, loop_idx>>

\* commit of an active transaction with modified files, lines 84-97: the
\* first turn of the lock loop.  The attempt is entered in the history of
\* every commit attempt running now, and they in its own.
CommitTry(t) ==
    /\ pc[t] = "idle" /\ is_active[t] /\ modified_files[t] # <<>>
    /\ TryNext(t, <<>>,
           [u \in Txns |->
               IF u = t THEN [NoAttempt EXCEPT !.overlapped = {w \in Txns \ {t} : InAttempt(w)}]
               ELSE IF InAttempt(u) THEN [attempt[u] EXCEPT !.overlapped = @ \cup {t}]
               ELSE attempt[u]])
    /\ UNCHANGED <<now, fileVars, txnVars, read_file_id, updated_file, rollback_logs,
                   rollback_time, commit_view, read_log, lock_call,
                   active_transaction_count, open_count, file_call, diff_call>>

\* commit, lines 93-97: a later turn of the lock loop.
CommitTryNext(t) ==
    /\ pc[t] = "commit_lock"
    /\ TryNext(t, acquired_locks[t], attempt)
    /\ UNCHANGED <<now, fileVars, txnVars, read_file_id, updated_file, rollback_logs,
                   rollback_time, commit_view, read_log, lock_call,
                   active_transaction_count, open_count, file_call, diff_call>>

\* commit's finally clause after a refused lock, lines 105-107: one call of
\* release_lock; after the last one the error leaves commit.
CommitRelease(t) ==
    /\ pc[t] = "commit_release"
    /\ locks' = release_lock(locks, acquired_locks[t][loop_idx[t]], t)
    /\ IF loop_idx[t] = Len(acquired_locks[t])
       THEN /\ outcome' = Outcome(t, "commit", "LockConflict")
            /\ pc' = [pc EXCEPT ![t] = "idle"]
            /\ loop_idx' = [loop_idx EXCEPT ![t] = 0]
       ELSE /\ loop_idx' = [loop_idx EXCEPT ![t] = @ + 1]
            /\ UNCHANGED <<pc, outcome>>
    /\ UNCHANGED <<now, fileVars, txnVars, read_file_id, acquired_locks, commit_time,
                   updated_file, rollback_logs, rollback_time, commit_view, read_log,
                   lock_call, callVars>>

\* Two clients with every operation at every isolation level.  With two
\* transactions commit_version_at_timestamp cannot raise, so Rollback is left
\* to SpecRollback.
Next ==
    \/ Tick
    \/ \E t \in Clients, iso \in IsolationLevel : Begin(t, iso)
    \/ \E t \in Clients, f \in ClientFiles : ReadFile(t, f)
    \/ \E t \in Clients : ReadLocked(t)
    \/ \E t \in Clients, f \in ClientFiles, b \in WriteBatches :
           BatchRoom(t, f, b, MaxBatches) /\ WriteFile(t, f, b)
    \/ \E t \in Clients : Abort(t)
    \/ \E t \in Clients : Commit(t)
    \/ \E t \in Clients : CommitRead(t)
    \/ \E t \in Clients : CommitWrite(t)
    \/ \E t \in Clients : CommitEnd(t)

Spec == Init /\ [][Next]_vars

\* Three SNAPSHOT writers that write and commit: transactions 1 and 2 delete
\* the content of file 2, transaction 3 registers both files.
NextRollback ==
    \/ Tick
    \/ \E t \in Txns : Begin(t, "SNAPSHOT")
    \/ \E t \in Racers :
           /\ BatchRoom(t, 2, get_diff_operations(<<"a">>, <<>>), MaxBatches)
           /\ WriteFile(t, 2, get_diff_operations(<<"a">>, <<>>))
    \/ \E f \in Files : WriteFile(3, f, <<>>)
    \/ \E t \in Txns : Commit(t)
    \/ \E t \in Txns : CommitAcquire(t)
    \/ \E t \in Txns : CommitRead(t)
    \/ \E t \in Txns : CommitWrite(t)
    \/ \E t \in Txns : Rollback(t)
    \/ \E t \in Txns : CommitEnd(t)

SpecRollback == Init /\ [][NextRollback]_vars

\* A SNAPSHOT transaction that buffers up to MaxOwnBatches batches for file 1
\* and reads the file back, beside a SNAPSHOT transaction that deletes the
\* content of file 1 and commits.
MaxOwnBatches == 2
Author == 1
Other == 2
OwnBatches == {<<InsertOperation(0, <<"b">>)>>, <<DeleteOperation(0, 1)>>}

NextOwnWrites ==
    \/ Tick
    \/ \E t \in {Author, Other} : Begin(t, "SNAPSHOT")
    \/ \E b \in OwnBatches :
           BatchRoom(Author, 1, b, MaxOwnBatches) /\ WriteFile(Author, 1, b)
    \/ /\ BatchRoom(Other, 1, get_diff_operations(<<"a">>, <<>>), MaxBatches)
       /\ WriteFile(Other, 1, get_diff_operations(<<"a">>, <<>>))
    \/ ReadFile(Author, 1)
    \/ ReadLocked(Author)
    \/ Commit(Other)
    \/ CommitRead(Other)
    \/ CommitWrite(Other)
    \/ CommitEnd(Other)

SpecOwnWrites == Init /\ [][NextOwnWrites]_vars

\* Two SNAPSHOT transactions at one instant: transaction 1 registers both files
\* with empty batches and commits; transaction 2 registers file 2, reads either
\* file and commits.  Every conflict of SHARED and EXCLUSIVE locks between a
\* read and a commit and between two commits happens.
NextNoWait ==
    \/ \E t \in Racers : Begin(t, "SNAPSHOT")
    \/ \E f \in Files : WriteFile(1, f, <<>>)
    \/ WriteFile(2, 2, <<>>)
    \/ \E f \in Files : ReadFile(2, f)
    \/ ReadLocked(2)
    \/ \E t \in Racers : Commit(t)
    \/ \E t \in Racers : CommitAcquire(t)
    \/ \E t \in Racers : CommitRead(t)
    \/ \E t \in Racers : CommitWrite(t)
    \/ \E t \in Racers : CommitEnd(t)

SpecNoWait == Init /\ [][NextNoWait]_vars

\* A READ_COMMITTED reader of file 1 beside a SNAPSHOT writer that deletes the
\* content of file 1 and may buffer for file 2 a batch whose indices are out
\* of range (write_file takes any batch), and that commits or aborts.
Reader == 1
Writer == 2
OutOfRangeBatch == <<DeleteOperation(1, 2)>>

NextDirty ==
    \/ Tick
    \/ Begin(Reader, "READ_COMMITTED")
    \/ Begin(Writer, "SNAPSHOT")
    \/ ReadFile(Reader, 1)
    \/ ReadLocked(Reader)
    \/ /\ BatchRoom(Writer, 1, get_diff_operations(<<"a">>, <<>>), MaxBatches)
       /\ WriteFile(Writer, 1, get_diff_operations(<<"a">>, <<>>))
    \/ /\ BatchRoom(Writer, 2, OutOfRangeBatch, MaxBatches)
       /\ WriteFile(Writer, 2, OutOfRangeBatch)
    \/ Commit(Writer)
    \/ CommitAcquire(Writer)
    \/ CommitRead(Writer)
    \/ CommitWrite(Writer)
    \/ CommitEnd(Writer)
    \/ Abort(Writer)

SpecDirty == Init /\ [][NextDirty]_vars

(* ------------- the lock manager driven directly by its callers -------- *)

LockCall(op, file_id, txn_id, requested, ret, before) ==
    [op |-> op, file_id |-> file_id, txn_id |-> txn_id, requested |-> requested,
     ret |-> ret, before |-> before]

LockVarsUnchanged ==
    UNCHANGED <<now, fileVars, txnVars, pc, localVars, outcome, read_log, callVars>>

\* FileLockManager.acquire_lock called with any arguments.
LockAcquire(file_id, txn_id, requested_lock_type) ==
    LET a == acquire_lock(locks, file_id, txn_id, requested_lock_type)
    IN  /\ locks' = a.locks
        /\ lock_call' = LockCall("acquire", file_id, txn_id, requested_lock_type, a.ret, locks)
        /\ LockVarsUnchanged

\* FileLockManager.release_lock called with any arguments.
LockRelease(file_id, txn_id) ==
    /\ locks' = release_lock(locks, file_id, txn_id)
    /\ lock_call' = LockCall("release", file_id, txn_id, "none", TRUE, locks)
    /\ LockVarsUnchanged

NextLock ==
    \/ \E f \in Files, t \in Txns, m \in {"SHARED", "EXCLUSIVE"} : LockAcquire(f, t, m)
    \/ \E f \in Files, t \in Txns : LockRelease(f, t)

SpecLock == Init /\ [][NextLock]_vars

(* ------------- a file object driven directly by its callers ----------- *)

FileTimes == 0..MaxStamp

FileCall(op, file_id, args, ret) ==
    [op |-> op, file_id |-> file_id, args |-> args, ret |-> ret]

FileVarsUnchanged ==
    UNCHANGED <<now, locks, txnVars, pc, localVars, outcome, read_log, lock_call, diff_call,
                attempt>>

\* FileObject.commit_version_at_timestamp called with any arguments.
FileCommitVersion(file_id, file_contents, timestamp) ==
    LET c == commit_version_at_timestamp(snapshot[file_id], file_versions[file_id],
                                         file_contents, timestamp)
    IN  /\ Len(file_versions[file_id]) < MaxVersions
        /\ file_versions' = [file_versions EXCEPT ![file_id] = c.versions]
        /\ version_txn' = [version_txn EXCEPT ![file_id] =
               IF c.appended THEN Append(@, [txn |-> 0, kind |-> "commit"]) ELSE @]
        /\ file_call' = FileCall("commit", file_id, <<file_contents, timestamp>>,
                                 IF c.ok THEN "none" ELSE "raise")
        /\ UNCHANGED <<snapshot, active_transaction_count, open_count>>
        /\ FileVarsUnchanged

\* FileObject.rollback_commit called with the times of a transaction that
\* started, then committed, then rolls back.
FileRollbackCommit(file_id, txn_start_time, txn_commit_time, rollback_time_) ==
    LET r == rollback_commit(snapshot[file_id], file_versions[file_id],
                             txn_start_time, txn_commit_time, rollback_time_)
    IN  /\ txn_start_time <= txn_commit_time /\ txn_commit_time <= rollback_time_
        /\ Len(file_versions[file_id]) < MaxVersions
        /\ file_versions' = [file_versions EXCEPT ![file_id] = r.versions]
        /\ version_txn' = [version_txn EXCEPT ![file_id] =
               IF r.appended THEN Append(@, [txn |-> 0, kind |-> "rollback"]) ELSE @]
        /\ file_call' = FileCall("rollback", file_id,
                                 <<txn_start_time, txn_commit_time, rollback_time_>>,
                                 IF ~r.ok THEN "raise"
                                 ELSE IF r.appended THEN "appended" ELSE "none")
        /\ UNCHANGED <<snapshot, active_transaction_count, open_count>>
        /\ FileVarsUnchanged

\* FileObject.compact_file called with any commit_time.
FileCompact(file_id, commit_time_) ==
    LET c == compact_file(snapshot[file_id], file_versions[file_id],
                          active_transaction_count[file_id], commit_time_)
    IN  /\ c.count >= -MaxCount
        /\ snapshot' = [snapshot EXCEPT ![file_id] = c.snapshot]
        /\ file_versions' = [file_versions EXCEPT ![file_id] = c.versions]
        /\ version_txn' = [version_txn EXCEPT ![file_id] =
               IF c.versions = <<>> THEN <<>> ELSE @]
        /\ active_transaction_count' = [active_transaction_count EXCEPT ![file_id] = c.count]
        /\ file_call' = FileCall("compact", file_id, <<commit_time_>>, c.ret)
        /\ UNCHANGED open_count
        /\ FileVarsUnchanged

\* FileObject.increment_transaction_count
FileIncrement(file_id) ==
    /\ open_count[file_id] < MaxCount
    /\ active_transaction_count' = [active_transaction_count EXCEPT ![file_id] =
           increment_transaction_count(@)]
    /\ open_count' = [open_count EXCEPT ![file_id] = @ + 1]
    /\ file_call' = FileCall("increment", file_id, <<>>, "none")
    /\ UNCHANGED fileVars
    /\ FileVarsUnchanged

\* FileObject.decrement_transaction_count, called to match an earlier increment.
FileDecrement(file_id) ==
    /\ open_count[file_id] > 0
    /\ active_transaction_count' = [active_transaction_count EXCEPT ![file_id] =
           decrement_transaction_count(@)]
    /\ open_count' = [open_count EXCEPT ![file_id] = @ - 1]
    /\ file_call' = FileCall("decrement", file_id, <<>>, "none")
    /\ UNCHANGED fileVars
    /\ FileVarsUnchanged

NextFile ==
    \/ \E f \in ClientFiles, c \in Contents, ts \in FileTimes : FileCommitVersion(f, c, ts)
    \/ \E f \in ClientFiles, ts, tc, tr \in FileTimes : FileRollbackCommit(f, ts, tc, tr)
    \/ \E f \in ClientFiles, ct \in FileTimes : FileCompact(f, ct)
    \/ \E f \in ClientFiles : FileIncrement(f)
    \/ \E f \in ClientFiles : FileDecrement(f)

SpecFile == Init /\ [][NextFile]_vars

\* A SNAPSHOT reader of file 1 beside a SNAPSHOT writer that deletes the content
\* of file 1 and commits, and compact_file called on file 1 at any moment.  No
\* code of the engine calls increment_transaction_count or
\* decrement_transaction_count, so the counter moves only by compact_file.
NextCompact ==
    \/ Tick
    \/ Begin(Reader, "SNAPSHOT")
    \/ Begin(Writer, "SNAPSHOT")
    \/ ReadFile(Reader, 1)
    \/ ReadLocked(Reader)
    \/ /\ BatchRoom(Writer, 1, get_diff_operations(<<"a">>, <<>>), MaxBatches)
       /\ WriteFile(Writer, 1, get_diff_operations(<<"a">>, <<>>))
    \/ Commit(Writer)
    \/ CommitRead(Writer)
    \/ CommitWrite(Writer)
    \/ CommitEnd(Writer)
    \/ \E t \in 0..MaxTime : FileCompact(1, t)

SpecCompact == Init /\ [][NextCompact]_vars

\* Two SNAPSHOT transactions that both start before either commits, both write
\* file 1, and commit one after the other: a commit starts only when the other
\* transaction is between operations.
NextLostUpdate ==
    \/ Tick
    \/ \E t \in Racers : Begin(t, "SNAPSHOT")
    \/ \E t \in Racers, b \in WriteBatches :
           BatchRoom(t, 1, b, MaxBatches) /\ WriteFile(t, 1, b)
    \/ \E t \in Racers :
           (\A u \in Racers : pc[u] = "idle") /\ Commit(t)
    \/ \E t \in Racers : CommitRead(t)
    \/ \E t \in Racers : CommitWrite(t)
    \/ \E t \in Racers : CommitEnd(t)

SpecLostUpdate == Init /\ [][NextLostUpdate]_vars

\* Three SNAPSHOT writers and no reader: each registers files in any order
\* and calls commit once; the lock loop of commit runs one lock manager call
\* at a time.
NextLockOrder ==
    \/ \E t \in Txns : Begin(t, "SNAPSHOT")
    \/ \E t \in Txns, f \in Files :
           /\ f \notin Keys(modified_files[t]) /\ attempt[t].state = "none"
           /\ WriteFile(t, f, <<>>)
    \/ \E t \in Txns : attempt[t].state = "none" /\ CommitTry(t)
    \/ \E t \in Txns : CommitTryNext(t)
    \/ \E t \in Txns : CommitRelease(t)
    \/ \E t \in Txns : CommitRead(t)
    \/ \E t \in Txns : CommitWrite(t)
    \/ \E t \in Txns : CommitEnd(t)

SpecLockOrder == Init /\ [][NextLockOrder]_vars

(* ------------- direct calls of the functions of diff_operations.py ----- *)

\* The strings over a two-letter alphabet of length up to MaxLen.
Alphabet == {"a", "b"}
Strings == UNION {[1..k -> Alphabet] : k \in 0..MaxLen}

\* get_diff_operations(old, new) and apply_diff_operations(old, .) on its result.
DiffAndApply(old, new) ==
    /\ diff_call' = [op |-> "diff", old |-> old, new |-> new,
                     operations |-> get_diff_operations(old, new),
                     applied |-> apply_diff_operations(old, get_diff_operations(old, new))]
    /\ UNCHANGED <<now, fileVars, locks, txnVars, pc, localVars, outcome, read_log,
                   lock_call, active_transaction_count, open_count, file_call, attempt>>

\* apply_diff_operations(content, []).
ApplyEmpty(content) ==
    /\ diff_call' = [op |-> "apply", old |-> content, new |-> content,
                     operations |-> <<>>,
                     applied |-> apply_diff_operations(content, <<>>)]
    /\ UNCHANGED <<now, fileVars, locks, txnVars, pc, localVars, outcome, read_log,
                   lock_call, active_transaction_count, open_count, file_call, attempt>>

NextDiff ==
    \/ \E old \in Strings, new \in Strings : DiffAndApply(old, new)
    \/ \E content \in Strings : ApplyEmpty(content)

SpecDiff == Init /\ [][NextDiff]_vars

(* ------------------------------- claims ------------------------------- *)

Holds(t, f) == f \in DOMAIN locks /\ t \in locks[f].txn_ids

ReadAt(f, timestamp) == read_version_at_timestamp(snapshot[f], file_versions[f], timestamp)

\* C1: during commit, from the sampling of commit_time until the version of a
\* modified file is appended, the committing transaction holds the EXCLUSIVE
\* lock on that file (so no other transaction can acquire any lock on it).
C1_ExclusiveHeldUntilAppend ==
    \A t \in Txns :
        pc[t] \in {"commit_read", "commit_write"} =>
            \A n \in loop_idx[t]..Len(modified_files[t]) :
                LET f == modified_files[t][n].file_id
                IN  f \in DOMAIN locks /\ locks[f] = FileLock("EXCLUSIVE", {t})

\* C2: when a commit ends COMMITTED, every file it wrote reads, at the commit
\* time, as the transaction's view of it; and the append of the commit's version
\* leaves every read at an earlier time as it was.
C2_CommitAtomicity ==
    [][\A t \in Txns :
         /\ (pc[t] = "commit_end" /\ pc'[t] = "idle" /\ transactions'[t].status = "COMMITTED") =>
                \A n \in 1..Len(rollback_logs[t]) :
                    LET f == rollback_logs[t][n].file_id
                    IN  read_version_at_timestamp(snapshot'[f], file_versions'[f], commit_time[t])
                            = Ok(commit_view[t][n])
         /\ (pc[t] = "commit_write" /\ pc'[t] \in {"commit_read", "commit_end"}) =>
                \A f \in Files : \A tm \in 0..(commit_time[t] - 1) :
                    read_version_at_timestamp(snapshot'[f], file_versions'[f], tm) = ReadAt(f, tm)
      ]_vars

\* C3: a SNAPSHOT transaction that has written nothing reads the same string
\* from a file every time, whatever other transactions commit in between.
C3_SnapshotRepeatableRead ==
    [][\A t \in Txns :
         (/\ isolation_level[t] = "SNAPSHOT"
          /\ modified_files[t] = <<>>
          /\ pc[t] = "read_locked" /\ pc'[t] = "idle"
          /\ outcome'.err = "ok"
          /\ read_log[t].file_id = read_log'[t].file_id)
         => read_log'[t].val = read_log[t].val
      ]_vars

\* C4: once the recorded status of a transaction is terminal, no later
\* operation changes its recorded status or end_time.
C4_TerminalStatusFinal ==
    [][\A t \in DOMAIN transactions :
         transactions[t].status \in TerminalStatus => transactions'[t] = transactions[t]
      ]_vars

\* C5: an operation invoked on a transaction that is no longer active signals
\* InactiveTransaction and changes no file object and no lock.
C5_InactiveRefused ==
    [][\A t \in Txns :
         (/\ pc[t] = "idle" /\ ~is_active[t]
          /\ \/ transactions'[t] # transactions[t]
             \/ outcome' # outcome /\ outcome'.txn = t)
         => /\ outcome' = Outcome(t, outcome'.op, "InactiveTransaction")
            /\ UNCHANGED <<snapshot, file_versions, locks>>
      ]_vars

C5_Witness ==
    /\ outcome.err = "InactiveTransaction"
    /\ transactions[outcome.txn].status = "FAILED"
    /\ locks # <<>>
    /\ \E f \in Files : Len(file_versions[f]) > 1

\* C6: every lock entry has a holder, an EXCLUSIVE entry has exactly one, and
\* so no two transactions share a file's lock when one holds it EXCLUSIVE.
C6_LockEntries ==
    /\ \A f \in DOMAIN locks :
           /\ locks[f].txn_ids # {}
           /\ locks[f].lock_type = "EXCLUSIVE" => Cardinality(locks[f].txn_ids) = 1
    /\ \A f \in Files : \A t, u \in Txns :
           (t # u /\ Holds(t, f) /\ Holds(u, f)) => locks[f].lock_type = "SHARED"
    /\ (lock_call.op = "release" /\ lock_call.file_id \in DOMAIN lock_call.before) =>
           (lock_call.file_id \in DOMAIN locks
                <=> lock_call.before[lock_call.file_id].txn_ids \ {lock_call.txn_id} # {})

C6_Witness ==
    /\ lock_call.op = "release"
    /\ lock_call.file_id \notin DOMAIN locks
    /\ \E f \in DOMAIN locks : Cardinality(locks[f].txn_ids) = 2

\* C7: acquire returns true exactly when the file has no entry, or the caller
\* is a holder and does not ask to upgrade SHARED to EXCLUSIVE, or the caller is
\* not a holder and both the mode and the request are SHARED; a refusal changes
\* nothing, and neither does a re-entrant success.
C7_AcquirePolicy ==
    lock_call.op = "acquire" =>
        LET b == lock_call.before
            f == lock_call.file_id
            t == lock_call.txn_id
            noEntry == f \notin DOMAIN b
            holder == ~noEntry /\ t \in b[f].txn_ids
            upgrade == holder /\ b[f].lock_type = "SHARED" /\ lock_call.requested = "EXCLUSIVE"
            share == ~noEntry /\ ~holder /\ b[f].lock_type = "SHARED"
                         /\ lock_call.requested = "SHARED"
        IN  /\ lock_call.ret <=> (noEntry \/ (holder /\ ~upgrade) \/ share)
            /\ ~lock_call.ret => locks = b
            /\ (lock_call.ret /\ holder) => locks = b

C7_Witness ==
    /\ lock_call.op = "acquire"
    /\ ~lock_call.ret
    /\ lock_call.file_id \in DOMAIN lock_call.before
    /\ lock_call.before[lock_call.file_id] = FileLock("SHARED", {lock_call.txn_id})
    /\ lock_call.requested = "EXCLUSIVE"

\* C8: release changes nothing when the caller is not a holder; otherwise it
\* removes the caller alone and deletes the entry when no holder is left; a
\* second release changes nothing more.
C8_ReleasePolicy ==
    lock_call.op = "release" =>
        LET b == lock_call.before
            f == lock_call.file_id
            t == lock_call.txn_id
            holder == f \in DOMAIN b /\ t \in b[f].txn_ids
        IN  /\ ~holder => locks = b
            /\ holder =>
                   /\ \A g \in DOMAIN b \ {f} : g \in DOMAIN locks /\ locks[g] = b[g]
                   /\ DOMAIN locks \subseteq DOMAIN b
                   /\ IF b[f].txn_ids = {t} THEN f \notin DOMAIN locks
                      ELSE /\ f \in DOMAIN locks
                           /\ locks[f] = FileLock(b[f].lock_type, b[f].txn_ids \ {t})
            /\ release_lock(locks, f, t) = locks

C8_Witness ==
    /\ lock_call.op = "release"
    /\ lock_call.file_id \in DOMAIN lock_call.before
    /\ lock_call.txn_id \in lock_call.before[lock_call.file_id].txn_ids
    /\ Cardinality(lock_call.before[lock_call.file_id].txn_ids) = 2

\* C9: when commit has finished, on whatever exit path, the transaction holds
\* no lock.
C9_NoLockAfterCommit ==
    \A t \in Txns :
        (outcome.txn = t /\ outcome.op = "commit" /\ pc[t] = "idle") =>
            \A f \in Files : ~Holds(t, f)

C9_Witness ==
    /\ outcome = Outcome(3, "commit", "LockConflict")
    /\ pc[3] = "idle"
    /\ acquired_locks[3] = <<1>>

\* C10: the timestamps of the versions of one file are pairwise distinct, and
\* of two versions appended by commits that ended COMMITTED the later appended
\* one has the greater timestamp.
Committed(t) == t = 0 \/ (t \in DOMAIN transactions /\ transactions[t].status = "COMMITTED")

C10_TimestampsDistinctMonotonic ==
    \A f \in Files : \A i, j \in 1..Len(file_versions[f]) :
        i < j =>
            /\ file_versions[f][i].timestamp # file_versions[f][j].timestamp
            /\ (/\ version_txn[f][i].kind = "commit" /\ Committed(version_txn[f][i].txn)
                /\ version_txn[f][j].kind = "commit" /\ Committed(version_txn[f][j].txn))
               => file_versions[f][i].timestamp < file_versions[f][j].timestamp

\* The versions of file f that transaction t appended as kind ("commit" or
\* "rollback") with the given timestamp, in the file state (vs, vt).
VersionsOf(vs, vt, t, kind, timestamp) ==
    {n \in 1..Len(vs) : vt[n] = [txn |-> t, kind |-> kind] /\ vs[n].timestamp = timestamp}

\* C11: a commit that ends with CommitFailed has status ROLLED_BACK and has
\* compensated, at its one rollback_time, every version it appended at its
\* commit_time; and no commit that ends with an error other than LockConflict
\* leaves the transaction ACTIVE with a version of this commit in some file.
C11_FailedCommitCompensated ==
    [][\A t \in Txns :
         (/\ pc[t] \in {"commit_read", "commit_write", "rollback"} /\ pc'[t] = "idle"
          /\ outcome'.err \notin {"ok", "LockConflict"})
         => /\ outcome'.err = "CommitFailed" =>
                  /\ transactions'[t].status = "ROLLED_BACK"
                  /\ \A f \in Files :
                         VersionsOf(file_versions'[f], version_txn'[f], t, "commit",
                                    commit_time[t]) # {}
                         => VersionsOf(file_versions'[f], version_txn'[f], t, "rollback",
                                       rollback_time[t]) # {}
            /\ is_active'[t] =>
                  \A f \in Files :
                      VersionsOf(file_versions'[f], version_txn'[f], t, "commit",
                                 commit_time[t]) = {}
      ]_vars

\* C12: after rollback_commit(ts, tc, tr), with ts before tc, has appended its
\* version to a file with a version at tc, the file reads at tr as it reads at
\* ts, and its reads at the times from tc up to tr are as before the call,
\* whatever else the log holds.
C12_RollbackRestoresStart ==
    [][\A f \in Files :
         (/\ file_call'.op = "rollback" /\ file_call'.file_id = f
          /\ file_call'.ret = "appended"
          /\ file_call'.args[1] < file_call'.args[2]
          /\ file_versions'[f] # file_versions[f])
         => LET ts == file_call'.args[1]
                tc == file_call'.args[2]
                tr == file_call'.args[3]
            IN  /\ read_version_at_timestamp(snapshot'[f], file_versions'[f], tr)
                       = read_version_at_timestamp(snapshot'[f], file_versions'[f], ts)
                /\ \A tm \in tc..(tr - 1) :
                       read_version_at_timestamp(snapshot'[f], file_versions'[f], tm)
                           = ReadAt(f, tm)
      ]_vars

\* C13: a commit that is refused an EXCLUSIVE lock ends holding no lock and
\* having changed no other holder, signals LockConflict, appends no version,
\* and leaves the transaction ACTIVE with its buffer as it was.
C13_LockConflictLeavesActive ==
    [][\A t \in Txns :
         (/\ pc[t] \in {"idle", "commit_lock"} /\ pc'[t] = "idle"
          /\ outcome' = Outcome(t, "commit", "LockConflict")
          /\ (outcome' # outcome \/ pc[t] = "commit_lock"))
         => /\ \A f \in Files : f \in DOMAIN locks' => t \notin locks'[f].txn_ids
            /\ \A f \in Files : \A u \in Txns \ {t} :
                   (f \in DOMAIN locks' /\ u \in locks'[f].txn_ids) <=> Holds(u, f)
            /\ UNCHANGED <<snapshot, file_versions>>
            /\ is_active'[t] /\ transactions'[t].status = "ACTIVE"
            /\ modified_files'[t] = modified_files[t] /\ modified_files[t] # <<>>
      ]_vars

C13_Witness ==
    /\ outcome = Outcome(3, "commit", "LockConflict")
    /\ pc[3] = "idle" /\ is_active[3]
    /\ acquired_locks[3] = <<1>>
    /\ Len(modified_files[3]) = 2
    /\ \E u \in Racers : Holds(u, 2)

\* C14: when two successive reads of one file by a READ_COMMITTED transaction
\* return different strings, some version appended to the file between the two
\* reads comes from a commit of a transaction that is not recorded as ABORTED,
\* ROLLED_BACK or ROLLBACK_FAILED (which can never end COMMITTED).
C14_ReadCommittedChangesByCommit ==
    [][\A t \in Txns :
         (/\ isolation_level[t] = "READ_COMMITTED"
          /\ pc[t] = "read_locked" /\ pc'[t] = "idle"
          /\ outcome'.err = "ok"
          /\ read_log'[t].file_id = read_log[t].file_id
          /\ read_log'[t].val # read_log[t].val)
         => \E n \in (read_log[t].versions + 1)..Len(file_versions'[read_log[t].file_id]) :
                LET v == version_txn'[read_log[t].file_id][n]
                IN  /\ v.kind = "commit"
                    /\ transactions'[v.txn].status
                           \notin {"ABORTED", "ROLLED_BACK", "ROLLBACK_FAILED"}
      ]_vars

\* C15: write_file on an ACTIVE transaction at READ_COMMITTED or
\* READ_UNCOMMITTED signals WriteNotPermittedAtIsolation, registers nothing in
\* the buffer, and leaves the transaction ACTIVE.
C15_WriteRefusedAtIsolation ==
    [][\A t \in Txns :
         (/\ is_active[t] /\ pc[t] = "idle"
          /\ isolation_level[t] \in {"READ_COMMITTED", "READ_UNCOMMITTED"}
          /\ outcome'.txn = t /\ outcome'.op = "write"
          /\ (outcome' # outcome \/ modified_files'[t] # modified_files[t]))
         => /\ outcome'.err = "WriteNotPermittedAtIsolation"
            /\ modified_files'[t] = modified_files[t]
            /\ modified_files'[t] = <<>>
            /\ is_active'[t] /\ transactions'[t].status = "ACTIVE"
            /\ UNCHANGED <<fileVars, locks>>
      ]_vars

C15_Witness ==
    /\ outcome.op = "write" /\ outcome.err = "WriteNotPermittedAtIsolation"
    /\ outcome.txn \in Txns
    /\ isolation_level[outcome.txn] = "READ_UNCOMMITTED"
    /\ is_active[outcome.txn] /\ modified_files[outcome.txn] = <<>>
    /\ transactions[outcome.txn].status = "ACTIVE"

\* A step that is the call compact_file(up_to_t) on file f.
CompactStep(f) ==
    /\ file_call'.op = "compact" /\ file_call'.file_id = f
    /\ \/ file_call' # file_call
       \/ <<snapshot[f], file_versions[f], active_transaction_count[f]>>
              # <<snapshot'[f], file_versions'[f], active_transaction_count'[f]>>

\* C16: compact_file returns true only if the counter of active transactions
\* is 0 and no version is later than up_to_t; then the snapshot is what the
\* file read at up_to_t and the log is empty; when it returns false the
\* snapshot and the log are unchanged.
C16_CompactContract ==
    [][\A f \in Files :
         CompactStep(f) =>
             LET up_to_t == file_call'.args[1]
             IN  /\ file_call'.ret = "true" =>
                        /\ active_transaction_count[f] = 0
                        /\ \A n \in 1..Len(file_versions[f]) :
                               file_versions[f][n].timestamp <= up_to_t
                        /\ Ok(snapshot'[f]) = ReadAt(f, up_to_t)
                        /\ file_versions'[f] = <<>>
                 /\ file_call'.ret = "false" =>
                        /\ snapshot'[f] = snapshot[f]
                        /\ file_versions'[f] = file_versions[f]
      ]_vars

\* C17: compact_file leaves the counter of active transactions unchanged, and
\* while every decrement matches an earlier increment the counter is never
\* negative.
C17_CompactKeepsCount ==
    [][/\ \A f \in Files :
              CompactStep(f) => active_transaction_count'[f] = active_transaction_count[f]
       /\ \A f \in Files : active_transaction_count'[f] >= 0
      ]_vars

\* The content after the first n of the batches, the n-th applied last.
RECURSIVE AfterBatches(_, _, _)
AfterBatches(baseline, batches, n) ==
    IF n = 0 THEN baseline
    ELSE LET before == AfterBatches(baseline, batches, n - 1)
         IN  IF before.ok THEN apply_diff_operations(before.val, batches[n]) ELSE before

\* C18: a read by an ACTIVE SNAPSHOT transaction of a file it has written
\* returns the content at its start time with its buffered batches for the
\* file applied first-appended first (it raises when a batch does not apply),
\* and the read changes neither the buffer nor the file object.
C18_ReadYourWrites ==
    [][\A t \in Txns :
         (/\ pc[t] = "read_locked" /\ pc'[t] = "idle"
          /\ is_active[t]
          /\ isolation_level[t] = "SNAPSHOT"
          /\ read_file_id[t] \in Keys(modified_files[t])) =>
             LET f == read_file_id[t]
                 b == BatchesOf(modified_files[t], f)
                 expected == AfterBatches(ReadAt(f, start_time[t]), b, Len(b))
             IN  /\ IF expected.ok
                    THEN /\ outcome'.err = "ok"
                         /\ read_log'[t] = [file_id |-> f, val |-> expected.val,
                                            versions |-> Len(file_versions[f])]
                    ELSE outcome'.err = "InvalidIndex"
                 /\ modified_files' = modified_files
                 /\ UNCHANGED fileVars
      ]_vars

\* A SNAPSHOT transaction has read back a file for which it buffered two
\* batches whose order matters, after another transaction changed the file.
C18_Witness ==
    /\ outcome.txn = Author /\ outcome.op = "read" /\ outcome.err = "ok"
    /\ is_active[Author]
    /\ BatchesOf(modified_files[Author], 1) =
           << <<InsertOperation(0, <<"b">>)>>, <<DeleteOperation(0, 1)>> >>
    /\ read_log[Author].val = <<"a">>
    /\ Len(file_versions[1]) > 1

\* C19: commit of an ACTIVE transaction whose modification buffer is empty
\* ends with status COMMITTED and no error, acquires no lock and changes no
\* file object, whatever locks other transactions hold.
C19_EmptyCommit ==
    [][\A t \in Txns :
         (/\ pc[t] = "idle" /\ is_active[t] /\ modified_files[t] = <<>>
          /\ outcome'.txn = t /\ outcome'.op = "commit"
          /\ (outcome' # outcome \/ transactions' # transactions)) =>
             /\ outcome'.err = "ok"
             /\ ~is_active'[t]
             /\ transactions'[t].status = "COMMITTED"
             /\ locks' = locks
             /\ UNCHANGED fileVars
      ]_vars

\* A transaction that cannot write has committed while the other transaction,
\* in its own commit, holds the EXCLUSIVE lock on the file.
C19_Witness ==
    /\ outcome = Outcome(1, "commit", "ok")
    /\ isolation_level[1] = "READ_COMMITTED"
    /\ transactions[1].status = "COMMITTED"
    /\ pc[2] = "commit_read"
    /\ 1 \in DOMAIN locks /\ locks[1] = FileLock("EXCLUSIVE", {2})

\* The step is an abort of the ACTIVE transaction t.
AbortStep(t) ==
    /\ pc[t] = "idle" /\ is_active[t]
    /\ outcome' = Outcome(t, "abort", "ok")
    /\ ~is_active'[t]

\* C20: abort of an ACTIVE transaction ends with status ABORTED and an empty
\* buffer and changes no file object and no lock entry; and no file holds a
\* version written by a transaction whose status is ABORTED, so that no read
\* at any timestamp sees a write of an aborted transaction.
C20_AbortDiscardsWrites ==
    [][/\ \A t \in Txns :
            AbortStep(t) =>
                /\ transactions'[t].status = "ABORTED"
                /\ modified_files'[t] = <<>>
                /\ locks' = locks
                /\ UNCHANGED fileVars
       /\ \A t \in DOMAIN transactions' :
            transactions'[t].status = "ABORTED" =>
                \A f \in Files : \A n \in 1..Len(version_txn'[f]) :
                    version_txn'[f][n].txn # t
      ]_vars

\* The version log of the file that transaction t is about to append to is
\* at the size where the model stops.
LogFull(t) ==
    /\ pc[t] \in {"commit_write", "rollback"}
    /\ loop_idx[t] \in 1..Len(modified_files[t])
    /\ Len(file_versions[modified_files[t][loop_idx[t]].file_id]) >= MaxVersions

\* C21: no operation waits for a lock: a created transaction that is between
\* operations can start a read and a commit, and a read or a commit that has
\* started can take its next step (a lock is granted or the operation ends
\* with LockConflict), whatever locks the other transactions hold, up to the
\* size of log the model stops at.
C21_NoWaiting ==
    \A t \in Txns :
        /\ pc[t] = "idle" => /\ ENABLED Commit(t)
                             /\ \A f \in Files : ENABLED ReadFile(t, f)
        /\ pc[t] = "read_locked" => ENABLED ReadLocked(t)
        /\ pc[t] = "commit_lock" => ENABLED CommitAcquire(t)
        /\ pc[t] = "commit_read" => ENABLED CommitRead(t)
        /\ pc[t] = "commit_write" => (LogFull(t) \/ ENABLED CommitWrite(t))
        /\ pc[t] = "commit_end" => ENABLED CommitEnd(t)

\* A commit of both files has been refused the lock on file 2, which the other
\* transaction holds in the middle of its read, and has returned.
C21_Witness ==
    /\ outcome = Outcome(1, "commit", "LockConflict")
    /\ pc[1] = "idle" /\ is_active[1]
    /\ Keys(modified_files[1]) = {1, 2}
    /\ pc[2] = "read_locked" /\ Holds(2, 2) /\ ~Holds(2, 1)

\* C22: for all strings a and b, apply(a, diff(a, b)) = b; diff(a, a) is the
\* empty batch; and apply(a, empty batch) = a.
C22_DiffRoundTrip ==
    /\ diff_call.op = "diff" =>
           /\ diff_call.applied = Ok(diff_call.new)
           /\ diff_call.old = diff_call.new => diff_call.operations = <<>>
    /\ diff_call.op = "apply" => diff_call.applied = Ok(diff_call.old)

\* A diff of two operations whose order of application matters ("ab" to
\* "ba": insert "b" at 0, delete 1..2) has been computed and applied.
C22_Witness ==
    /\ diff_call.op = "diff"
    /\ diff_call.old = <<"a", "b">> /\ diff_call.new = <<"b", "a">>
    /\ diff_call.operations = <<InsertOperation(0, <<"b">>), DeleteOperation(1, 2)>>
    /\ diff_call.applied = Ok(<<"b", "a">>)

\* Version n of file f is a non-empty change appended by a commit of
\* transaction u whose commit is still at work on its files, or that ended
\* ABORTED, ROLLED_BACK or ROLLBACK_FAILED, without a compensating version up
\* to timestamp.
Uncommitted(f, n, timestamp) ==
    LET v == version_txn[f][n]
        u == v.txn
    IN  /\ v.kind = "commit" /\ u # 0
        /\ file_versions[f][n].diff_operations # <<>>
        /\ file_versions[f][n].timestamp <= timestamp
        /\ \/ pc[u] \in {"commit_read", "commit_write", "rollback"}
           \/ transactions[u].status \in {"ABORTED", "ROLLED_BACK", "ROLLBACK_FAILED"}
        /\ ~\E m \in 1..Len(version_txn[f]) :
               /\ version_txn[f][m] = [txn |-> u, kind |-> "rollback"]
               /\ file_versions[f][m].timestamp <= timestamp

\* C23: a READ_COMMITTED read never returns content written by a transaction
\* that is not COMMITTED: when the read returns, no version that it applied
\* comes from a commit still in progress on other files or from a transaction
\* that ended ABORTED, ROLLED_BACK or ROLLBACK_FAILED.
C23_NoDirtyRead ==
    [][\A t \in Txns :
         (/\ isolation_level[t] = "READ_COMMITTED"
          /\ pc[t] = "read_locked" /\ pc'[t] = "idle"
          /\ outcome'.err = "ok")
         => \A n \in 1..Len(file_versions[read_file_id[t]]) :
                ~Uncommitted(read_file_id[t], n, now)
      ]_vars

\* C24: in every state reached through engine operations every batch of a
\* file's version log applies to the string it is applied to: the read of any
\* file at any timestamp does not fail with InvalidIndex.
C24_LogAlwaysReadable ==
    \A f \in Files : \A timestamp \in 0..MaxTime : ReadAt(f, timestamp).ok

\* C25: every version that a commit or a rollback appends to a file's log
\* has a timestamp greater than or equal to every timestamp already in the
\* log, and the append leaves the reading at every instant already past as it
\* was.
C25_AppendsInTimestampOrder ==
    [][\A f \in Files :
         Len(file_versions'[f]) = Len(file_versions[f]) + 1 =>
             LET appended == file_versions'[f][Len(file_versions'[f])]
             IN  /\ \A n \in 1..Len(file_versions[f]) :
                        file_versions[f][n].timestamp <= appended.timestamp
                 /\ \A timestamp \in 0..MaxTime :
                        timestamp < now =>
                            read_version_at_timestamp(snapshot'[f], file_versions'[f],
                                                      timestamp)
                                = ReadAt(f, timestamp)
      ]_vars

\* What read_file of file f by transaction t returns in the file state
\* (snap, vs): the version at its isolation level with its buffered batches.
WouldRead(t, f, snap, vs) ==
    ApplyBatches(read_version_at_timestamp(snap, vs, ReadTimestamp(t)),
                 BatchesOf(modified_files[t], f))

\* C26: a compact_file that returns true does not change the string that a
\* read of the file by any transaction ACTIVE at that moment returns.
C26_CompactKeepsActiveReads ==
    [][\A f \in Files :
         (/\ file_call'.op = "compact" /\ file_call'.file_id = f
          /\ file_call'.ret = "true"
          /\ UNCHANGED <<now, txnVars, pc, outcome>>
          /\ <<snapshot'[f], file_versions'[f]>> # <<snapshot[f], file_versions[f]>>)
         => \A t \in Txns :
                (is_active[t] /\ pc[t] = "idle") =>
                    WouldRead(t, f, snapshot'[f], file_versions'[f])
                        = WouldRead(t, f, snapshot[f], file_versions[f])
      ]_vars

\* Transaction u has committed a version of file f and is recorded COMMITTED.
HasCommitted(u, f) ==
    /\ u \in DOMAIN transactions /\ transactions[u].status = "COMMITTED"
    /\ \E n \in 1..Len(version_txn[f]) : version_txn[f][n] = [txn |-> u, kind |-> "commit"]

\* C27: of two SNAPSHOT transactions that started before either committed and
\* that both wrote file 1, the one that commits after the other's commit has
\* ended COMMITTED also commits without an error, ends COMMITTED, and leaves
\* as the current content of the file exactly its own view.
C27_SecondCommitOverwrites ==
    [][\A t \in Racers : \A u \in Racers \ {t} :
         (/\ HasCommitted(u, 1)
          /\ is_active[t] /\ 1 \in Keys(modified_files[t])
          /\ pc'[t] # pc[t]) =>
             /\ pc'[t] = "idle" =>
                    /\ outcome' = Outcome(t, "commit", "ok")
                    /\ transactions'[t].status = "COMMITTED"
                    /\ read_version_at_timestamp(snapshot'[1], file_versions'[1], now)
                           = Ok(commit_view[t][1])
             /\ outcome' # outcome => outcome' = Outcome(t, "commit", "ok")
      ]_vars

\* C28: write_file on an ACTIVE SNAPSHOT transaction succeeds whatever locks
\* are held and changes only that transaction's modification buffer: the lock
\* table, the file objects, the registry and the other buffers stay as they
\* were.
C28_WriteTouchesOnlyBuffer ==
    [][\A t \in Txns :
         (/\ is_active[t] /\ pc[t] = "idle"
          /\ isolation_level[t] = "SNAPSHOT"
          /\ outcome'.txn = t /\ outcome'.op = "write"
          /\ (outcome' # outcome \/ modified_files'[t] # modified_files[t]))
         => /\ outcome'.err = "ok"
            /\ \A u \in Txns \ {t} : modified_files'[u] = modified_files[u]
            /\ UNCHANGED <<fileVars, locks, transactions, is_active>>
      ]_vars

\* A SNAPSHOT transaction that started after the other transaction's commit
\* took the EXCLUSIVE lock on the file has written to the file, the lock
\* still being held.
C28_Witness ==
    /\ outcome = Outcome(1, "write", "ok")
    /\ is_active[1] /\ isolation_level[1] = "SNAPSHOT"
    /\ 1 \in Keys(modified_files[1])
    /\ pc[2] = "commit_read" /\ commit_time[2] # NoTime
    /\ commit_time[2] < start_time[1]
    /\ 1 \in DOMAIN locks /\ locks[1] = FileLock("EXCLUSIVE", {2})

\* A transaction other than t holds the EXCLUSIVE lock on file f.
OtherExclusive(t, f) ==
    f \in DOMAIN locks /\ locks[f].lock_type = "EXCLUSIVE" /\ locks[f].txn_ids # {t}

\* C29: a READ_UNCOMMITTED read leaves the lock table alone and does not
\* signal LockConflict; a SNAPSHOT or READ_COMMITTED read signals LockConflict
\* exactly when another transaction holds EXCLUSIVE on the file, and then the
\* transaction stays ACTIVE and the lock table is unchanged; otherwise the read
\* takes its SHARED lock and, when it returns or fails, gives it up and leaves
\* every other holder in place.
C29_ReadLocking ==
    [][\A t \in Txns :
         /\ (/\ pc[t] = "idle" /\ is_active[t]
             /\ outcome'.txn = t /\ outcome'.op = "read"
             /\ (outcome' # outcome \/ read_log' # read_log)) =>
                IF isolation_level[t] = "READ_UNCOMMITTED"
                THEN outcome'.err # "LockConflict" /\ locks' = locks
                ELSE /\ outcome'.err = "LockConflict"
                     /\ \E f \in Files : OtherExclusive(t, f)
                     /\ is_active'[t] /\ transactions'[t].status = "ACTIVE"
                     /\ locks' = locks
         /\ (pc[t] = "idle" /\ pc'[t] = "read_locked") =>
                \A f \in Files : read_file_id'[t] = f =>
                    /\ isolation_level[t] # "READ_UNCOMMITTED"
                    /\ ~OtherExclusive(t, f)
                    /\ Holds(t, f)' /\ locks'[f].lock_type = "SHARED"
                    /\ \A g \in Files, u \in Txns :
                           <<u, g>> # <<t, f>> => (Holds(u, g)' <=> Holds(u, g))
         /\ (pc[t] = "read_locked" /\ pc'[t] = "idle") =>
                \A f \in Files : read_file_id[t] = f =>
                    /\ ~Holds(t, f)'
                    /\ \A g \in Files, u \in Txns :
                           <<u, g>> # <<t, f>> => (Holds(u, g)' <=> Holds(u, g))
                    /\ \A g \in DOMAIN locks' : locks'[g].lock_type = locks[g].lock_type
      ]_vars

\* A READ_COMMITTED read has been refused while the other transaction,
\* whose commit began before the reader started, holds EXCLUSIVE on the file;
\* the reader is still ACTIVE.
C29_Witness ==
    /\ outcome = Outcome(1, "read", "LockConflict")
    /\ isolation_level[1] = "READ_COMMITTED"
    /\ is_active[1] /\ transactions[1].status = "ACTIVE"
    /\ pc[2] = "commit_read" /\ commit_time[2] # NoTime
    /\ commit_time[2] < start_time[1]
    /\ 1 \in DOMAIN locks /\ locks[1] = FileLock("EXCLUSIVE", {2})

\* Every write of transaction t so far was an empty batch: files are
\* registered in the buffer and no batch is buffered for any of them.
OnlyEmptyWrites(t) ==
    /\ modified_files[t] # <<>>
    /\ \A f \in Keys(modified_files[t]) : BatchesOf(modified_files[t], f) = <<>>

\* C30: a write with an empty batch registers the file in the buffer; the
\* commit of a transaction whose only writes were empty batches goes through
\* the locks (it takes EXCLUSIVE on its first file or signals LockConflict,
\* it does not end COMMITTED at once), and each version it appends has an
\* empty diff batch and leaves the content of the file as it was.
C30_EmptyWriteCommit ==
    [][\A t \in Txns :
         /\ \A f \in Files :
                (/\ is_active[t] /\ isolation_level[t] = "SNAPSHOT"
                 /\ WriteFile(t, f, <<>>))
                => /\ f \in Keys(modified_files'[t])
                   /\ BatchesOf(modified_files'[t], f) = BatchesOf(modified_files[t], f)
         /\ (/\ pc[t] = "idle" /\ is_active[t] /\ OnlyEmptyWrites(t)
             /\ \/ pc'[t] # "idle"
                \/ outcome' # outcome /\ outcome' = Outcome(t, "commit", "LockConflict")
                \/ transactions'[t].status # transactions[t].status)
            => /\ transactions'[t].status = "ACTIVE"
               /\ \/ outcome' = Outcome(t, "commit", "LockConflict") /\ locks' = locks
                  \/ \E f \in Keys(modified_files[t]) :
                        /\ Holds(t, f)' /\ locks'[f].lock_type = "EXCLUSIVE"
         /\ \A f \in Files :
                (/\ pc[t] = "commit_write" /\ pc'[t] # pc[t] /\ OnlyEmptyWrites(t)
                 /\ modified_files[t][loop_idx[t]].file_id = f
                 /\ Len(file_versions'[f]) = Len(file_versions[f]) + 1)
                => /\ file_versions'[f][Len(file_versions'[f])].diff_operations = <<>>
                   /\ read_version_at_timestamp(snapshot'[f], file_versions'[f], now)
                          = ReadAt(f, now)
      ]_vars

\* Following the holders that refused: the attempt of t was refused a lock
\* held by the attempt of u, which ran during it and which is still taking
\* locks, or took them all, or was refused in turn a lock of greater file_id
\* from which the same holds (n bounds the length of the chain).
RECURSIVE ChainWins(_, _)
ChainWins(t, n) ==
    /\ n > 0
    /\ \E u \in attempt[t].blocked_by :
          /\ u \in attempt[t].overlapped
          /\ \/ attempt[u].state \in {"locking", "acquired"}
             \/ /\ attempt[u].state = "failed"
                /\ attempt[u].blocked_on > attempt[t].blocked_on
                /\ ChainWins(u, n - 1)

\* C31 as stated: whenever a commit attempt has been refused a lock held by
\* another committing transaction (no reads in progress), some commit attempt
\* that overlapped it acquires all of its locks: it has them, or is still
\* taking them.
C31_OverlappingAttemptWins ==
    \A t \in Txns :
        attempt[t].state = "failed" =>
            \E w \in attempt[t].overlapped : attempt[w].state \in {"locking", "acquired"}

\* C31 amended: whenever a commit attempt has been refused a lock held by
\* another committing transaction (no reads in progress), the holder's
\* attempt, which overlaps it, acquires all of its locks or is itself refused
\* a lock of greater file_id held by another committing transaction;
\* following the holders in this way ends at an attempt that acquires all of
\* its locks (or is still taking them), so the writers never all refuse each
\* other.
C31_LockOrderChain ==
    \A t \in Txns :
        attempt[t].state = "failed" => ChainWins(t, Cardinality(Txns))

\* Transaction 1 was refused the lock on file 1 held by transaction 2, which
\* was then refused the lock on file 2 held by transaction 3, which acquired
\* all its locks; every thread has left commit's lock loop.
C31_Witness ==
    /\ attempt[1].state = "failed" /\ attempt[1].blocked_on = 1
    /\ attempt[1].blocked_by = {2}
    /\ attempt[2].state = "failed" /\ attempt[2].blocked_on = 2
    /\ attempt[2].blocked_by = {3}
    /\ attempt[3].state = "acquired"
    /\ 3 \notin attempt[1].overlapped
    /\ \A u \in Txns : pc[u] \notin {"commit_lock", "commit_release"}
====
